---------------------------- MODULE Spec2Model ----------------------------
(***************************************************************************)
(* OkechikaTranslater: the substitution-mapping pipeline of the background *)
(* script (parseCsv, mappingFromRows, fetchFirstWorkingCsv, refreshMapping)*)
(* and the live DOM rewriting engine of the content script (buildReplacer, *)
(* translateRoot, restoreTranslatedInRoot, the MutationObserver callback   *)
(* and scheduleTranslate).                                                 *)
(*                                                                         *)
(* Text is a sequence of UTF-16 code units (natural numbers), so that      *)
(* trim, split, slice and the regular-expression scan are computed the way *)
(* the JavaScript computes them.                                           *)
(***************************************************************************)
EXTENDS Integers, Sequences, FiniteSets, TLC

VARIABLES
    \* ---- buildReplacer harness (content.js 95-108)
    rMapping,       \* the mapping handed to buildReplacer
    rText,          \* the text handed to the returned function
    rOut,           \* what the returned function produced
    rDone,          \* the returned function has been applied
    \* ---- mappingFromRows harness (background.js 126-224)
    bRows,          \* the table handed to mappingFromRows
    bMapping,       \* the mapping it returned
    bFallback,      \* the keys written by the modulo fallback loop (197-202)
    bDone,          \* mappingFromRows has returned
    \* ---- refreshMapping (background.js 226-293, 568-639)
    fResp,          \* how the request of this refresh settles
    fOverride,      \* the value stored under LOCAL_OVERRIDE_KEY
    fPc,            \* the await at which refreshMapping stands
    fFetched,       \* what fetchFirstWorkingCsv threw or returned
    fMapping,       \* the mapping chosen by the loop over the URLs
    fPending,       \* the record handed to storage.local.set
    stored,         \* the record stored under STORAGE_KEY
    fResult,        \* the value refreshMapping returned
    \* ---- the content script in one page (content.js 510-817)
    dom,            \* the units of page text, each a text node or a container
    replaceFn,      \* the mapping the replacer of this run was built from
    rubySwap,       \* the module-level flag rubySwap
    enabled,        \* the flag enabled
    phase,          \* "loading" until the initial pass, "running", "stopped"
    observer,       \* the MutationObserver is connected
    records,        \* mutation records queued for the observer callback
    pendingRoots,   \* the set pendingRoots
    scheduled,      \* the flag scheduled of scheduleTranslate
    passQueue,      \* pass microtasks queued by scheduleTranslate, not yet run
    notified,       \* history: callbacks that called scheduleTranslate since
                    \* the last pass
    isApplying,     \* the flag isApplying
    retryTimers,    \* retry timers that have not fired yet
    pageOps,        \* mutations the page's scripts have made
    toggles,        \* rubySwap changes received
    firstRender,    \* history: what each unit showed after its first rewrite
    textAtWrap,     \* history: the text a node held when it was wrapped
    selfRoots,      \* history: roots the last callback took from records of
                    \* the engine's own container insertions and refreshes
    lastPass,       \* history: the last pass whose records are still queued
    \* ---- the background script and its storage area (background.js 295-320,
    \*      641-668): concurrent refreshMapping calls and GET_MAPPING requests
    variant,        \* which background script runs: "Chrome" or "FireFox"
    area,           \* storage.local: the values under the two keys
    calls,          \* the refreshMapping calls, each at one of its awaits
    getMapping,     \* the GET_MAPPING request in progress and its response
    written,        \* history: a storage.local.set of STORAGE_KEY resolved
    lastOk,         \* history: the mapping of the last success record stored
    \* ---- the content script over its whole life (content.js 510-817)
    domainOnly,     \* the module-level flag domainOnly
    allowed,        \* isAllowedOkechikaSite() of this page
    awaiting,       \* startIfNeeded calls suspended at their awaits
    leaked,         \* connected observers that `observer` no longer refers to
    started,        \* startIfNeeded.rerenderAllRoots and replaceFn are set
    events,         \* storage.onChanged events handled
    \* ---- parseCsv harness (background.js 22-84)
    cText,          \* the text handed to parseCsv
    cRows,          \* the table it returned
    cDone,          \* parseCsv has returned
    \* ---- passes over editable regions and form fields (content.js 79-93,
    \*      226-345)
    wTexts,         \* the text nodes of the page, by name
    wFields,        \* the text inputs of the page, by name
    wActive,        \* document.activeElement
    wFaulty,        \* the nodes and fields whose DOM write throws
    wPhase,         \* "loading", "running", or "failed" when startIfNeeded threw
    wObserver,      \* the MutationObserver is connected
    wTimers,        \* retry timers that have not fired yet
    wMoves,         \* focus changes made
    wPasses,        \* scheduled passes run
    \* ---- the banner of startIfNeeded (content.js 394-478, 555-635)
    gotResult,      \* what the last startIfNeeded call got for GET_MAPPING
    changedTextNodes, \* changedTextNodes of its initial pass
    changedFields,  \* changedFields of its initial pass
    banner,         \* the element #okechika-translater-error is in the page
    bannerStarts    \* startIfNeeded calls that ran to their end

replVars == <<rMapping, rText, rOut, rDone>>
buildVars == <<bRows, bMapping, bFallback, bDone>>

refreshVars ==
    <<fResp, fOverride, fPc, fFetched, fMapping, fPending, stored, fResult>>

domVars ==
    <<dom, replaceFn, rubySwap, enabled, phase, observer, records,
      pendingRoots, scheduled, passQueue, notified, isApplying, retryTimers,
      pageOps, toggles, firstRender, textAtWrap, selfRoots, lastPass>>

cacheVars == <<variant, area, calls, getMapping, written, lastOk>>

lifeVars == <<domainOnly, allowed, awaiting, leaked, started, events>>

csvVars == <<cText, cRows, cDone>>

walkVars ==
    <<wTexts, wFields, wActive, wFaulty, wPhase, wObserver, wTimers, wMoves,
      wPasses>>

bannerVars == <<gotResult, changedTextNodes, changedFields, banner, bannerStarts>>

vars ==
    <<replVars, buildVars, refreshVars, domVars, cacheVars, lifeVars,
      csvVars, walkVars, bannerVars>>

-----------------------------------------------------------------------------
(* Code units and the JavaScript notions of white space                    *)

SP == 32
IDSP == 12288
LF == 10
CR == 13

\* the n-th lower-case latin letter, "a" = Ltr(1)
Ltr(n) == 96 + n

\* ECMAScript WhiteSpace + LineTerminator: what \s matches and trim() strips
WhiteSpace ==
    {9, LF, 11, 12, CR, SP, 160, 5760, 8232, 8233, 8239, 8287, IDSP, 65279}
        \cup (8192..8202)

IsSpace(c) == c \in WhiteSpace

AllSpace(s) == \A i \in 1..Len(s) : IsSpace(s[i])

SetMin(S) == CHOOSE m \in S : \A n \in S : m <= n
SetMax(S) == CHOOSE m \in S : \A n \in S : n <= m

\* String.prototype.trim
Trim(s) ==
    LET keep == {i \in 1..Len(s) : ~IsSpace(s[i])} IN
    IF keep = {} THEN <<>> ELSE SubSeq(s, SetMin(keep), SetMax(keep))

\* all sequences over S of length 0..n
SeqsUpTo(S, n) == UNION {[1..k -> S] : k \in 0..n}

RECURSIVE Concat(_)
Concat(ss) == IF ss = <<>> THEN <<>> ELSE Head(ss) \o Concat(Tail(ss))

-----------------------------------------------------------------------------
(* buildReplacer                                                           *)

\* absent value (null / undefined)
Null == <<-1>>

\* Object.entries(mapping): the keys in the object's own enumeration order
RECURSIVE KeysInOrder(_)
KeysInOrder(S) ==
    IF S = {} THEN <<>>
    ELSE LET k == CHOOSE x \in S : TRUE IN <<k>> \o KeysInOrder(S \ {k})

\* comparator of entries.sort: a goes before b when b[0].length - a[0].length < 0
LongerFirst_asc(a, b) == Len(a) < Len(b)
LongerFirst(a, b) == Len(a) > Len(b)

\* stable insertion of k into an already sorted sequence
RECURSIVE InsertSorted(_, _)
InsertSorted(k, sorted) ==
    IF sorted = <<>> THEN <<k>>
    ELSE IF LongerFirst(k, Head(sorted)) THEN <<k>> \o sorted
         ELSE <<Head(sorted)>> \o InsertSorted(k, Tail(sorted))

RECURSIVE SortEntries(_)
SortEntries(keys) ==
    IF keys = <<>> THEN <<>>
    ELSE InsertSorted(keys[Len(keys)], SortEntries(SubSeq(keys, 1, Len(keys) - 1)))

\* key k occurs in text at position i
MatchesAt(k, text, i) ==
    /\ i + Len(k) - 1 <= Len(text)
    /\ \A j \in 1..Len(k) : text[i + j - 1] = k[j]

\* the alternation k1|k2|...: the first alternative that matches at i wins
RECURSIVE FirstAlternative(_, _, _)
FirstAlternative(keys, text, i) ==
    IF keys = <<>> THEN Null
    ELSE IF MatchesAt(Head(keys), text, i) THEN Head(keys)
         ELSE FirstAlternative(Tail(keys), text, i)

\* text.replace(re, m => map.get(m) ?? m) with the g flag, from position i
RECURSIVE ReplaceFrom(_, _, _, _)
ReplaceFrom(text, i, keys, mapping) ==
    IF i > Len(text) THEN <<>>
    ELSE LET k == FirstAlternative(keys, text, i) IN
         IF k = Null
         THEN <<text[i]>> \o ReplaceFrom(text, i + 1, keys, mapping)
         ELSE mapping[k] \o ReplaceFrom(text, i + Len(k), keys, mapping)

\* buildReplacer(mapping) is null for an empty mapping
ReplacerIsNull(mapping) == DOMAIN mapping = {}

\* buildReplacer(mapping)(text)
ReplaceFn(mapping, text) ==
    ReplaceFrom(text, 1, SortEntries(KeysInOrder(DOMAIN mapping)), mapping)

-----------------------------------------------------------------------------
(* mappingFromRows                                                         *)

PackedMin == 100
IndexedMin == 10
Digit0 == 48

\* assignment mapping[k] = v on an object used as a dictionary
Put(m, k, v) == [kk \in (DOMAIN m) \cup {k} |-> IF kk = k THEN v ELSE m[kk]]

\* an iteration of a loop that leaves by continue and writes nothing
Skip == <<>>

\* the writes mapping[from] = to of a loop applied in order: every key holds
\* the value of the last iteration that wrote it
PutAll(m, writes) ==
    LET live == {i \in 1..Len(writes) : writes[i] # Skip}
        keys == {writes[i][1] : i \in live}
    IN [k \in (DOMAIN m) \cup keys |->
          IF k \in keys
          THEN writes[SetMax({i \in live : writes[i][1] = k})][2]
          ELSE m[k]]

\* getCell(cols, index), index counted from 0; a missing row (undefined) is
\* the row without cells
GetCell(cols, index) ==
    IF index < 0 \/ index >= Len(cols) THEN <<>>
    ELSE cols[index + 1]

\* rows?.[0]
FirstRow(rows) == IF Len(rows) = 0 THEN <<>> ELSE rows[1]

IsDigit(ch) == ch \in Digit0..(Digit0 + 9)

\* isNonNegativeIntegerString: /^\d+$/ on the trimmed string
IsNonNegativeIntegerString(s) ==
    LET t == Trim(s) IN t # <<>> /\ \A i \in 1..Len(t) : IsDigit(t[i])

\* Number.parseInt(b, 10) of a string of decimal digits
RECURSIVE ParseInt(_)
ParseInt(ds) ==
    IF ds = <<>> THEN 0
    ELSE 10 * ParseInt(SubSeq(ds, 1, Len(ds) - 1)) + (ds[Len(ds)] - Digit0)

\* s.split(/[\s\u3000]+/).filter(Boolean) on s[lo..hi]: the maximal runs of
\* non-space code units, in order (the range is halved at a separator)
RECURSIVE SplitRange(_, _, _)
SplitRange(s, lo, hi) ==
    IF lo > hi THEN <<>>
    ELSE LET W == {i \in lo..hi : IsSpace(s[i])} IN
         IF W = {} THEN <<SubSeq(s, lo, hi)>>
         ELSE LET mid == (lo + hi) \div 2
                  L == {i \in W : i <= mid}
                  m == IF L # {} THEN SetMax(L) ELSE SetMin(W)
              IN SplitRange(s, lo, m - 1) \o SplitRange(s, m + 1, hi)

Tokens(s) == LET t == Trim(s) IN SplitRange(t, 1, Len(t))

\* looksLikePackedFirstRow
LooksLikePackedFirstRow_any(firstRowA) ==
    Trim(firstRowA) # <<>> /\ Len(Tokens(firstRowA)) >= 1
LooksLikePackedFirstRow(firstRowA) ==
    Trim(firstRowA) # <<>> /\ Len(Tokens(firstRowA)) >= PackedMin

\* strategy 1: the rows the first loop records into plainByIndex
IsIndexedRow(cols) ==
    /\ Len(cols) >= 2
    /\ Trim(GetCell(cols, 0)) # <<>>
    /\ Trim(GetCell(cols, 1)) # <<>>
    /\ IsNonNegativeIntegerString(GetCell(cols, 1))

RowIndex(cols) == ParseInt(Trim(GetCell(cols, 1)))

\* plainByIndex after the first loop: the last row that set an index wins
PlainByIndex(rows) ==
    LET R == {i \in 1..Len(rows) : IsIndexedRow(rows[i])} IN
    [n \in {RowIndex(rows[i]) : i \in R} |->
        Trim(GetCell(rows[SetMax({i \in R : RowIndex(rows[i]) = n})], 0))]

\* maxIndex after the first loop
MaxIndex(rows) ==
    LET P == PlainByIndex(rows) IN
    IF DOMAIN P = {} THEN -1 ELSE SetMax(DOMAIN P)

Packed(rows) == LooksLikePackedFirstRow(GetCell(FirstRow(rows), 0))

CipherTokens(rows) == Tokens(GetCell(FirstRow(rows), 0))
PlainTokens(rows) == Tokens(GetCell(FirstRow(rows), 1))

HasPackedDirect(rows) == Len(PlainTokens(rows)) >= PackedMin

SeqMin(m, n) == IF m < n THEN m ELSE n

\* strategy 2, direct pairs: the writes of the loop at 186-191
PackedWrites_shifted(rows) ==
    IF Packed(rows) /\ HasPackedDirect(rows)
    THEN LET ct == CipherTokens(rows)
             pt == PlainTokens(rows)
         IN [i \in 1..SeqMin(Len(ct), Len(pt)) |-> <<ct[i], pt[(i % Len(pt)) + 1]>>]
    ELSE <<>>
PackedWrites(rows) ==
    IF Packed(rows) /\ HasPackedDirect(rows)
    THEN LET ct == CipherTokens(rows)
             pt == PlainTokens(rows)
         IN [i \in 1..SeqMin(Len(ct), Len(pt)) |-> <<ct[i], pt[i]>>]
    ELSE <<>>

\* base of the modulo fallback
FallbackBase_size(rows) == Cardinality(DOMAIN PlainByIndex(rows))
FallbackBase(rows) == IF MaxIndex(rows) >= 0 THEN MaxIndex(rows) + 1 ELSE 0

\* index of plainByIndex read for position i (counted from 0)
FallbackIndex_next(i, base) == (i + 1) % base
FallbackIndex(i, base) == i % base

\* strategy 2, fallback: the writes of the loop at 197-202; position i (from 0)
\* takes plainByIndex.get(i % base) and is skipped when that index is missing
FallbackWrites(rows) ==
    IF Packed(rows) /\ ~HasPackedDirect(rows)
       /\ Cardinality(DOMAIN PlainByIndex(rows)) >= IndexedMin
       /\ FallbackBase(rows) > 0
    THEN LET ct == CipherTokens(rows)
             P == PlainByIndex(rows)
             base == FallbackBase(rows)
         IN [i \in 1..Len(ct) |->
               IF FallbackIndex(i - 1, base) \in DOMAIN P
               THEN <<ct[i], P[FallbackIndex(i - 1, base)]>>
               ELSE Skip]
    ELSE <<>>

\* strategy 3: the rows the last loop writes
IsDirectRow(rows, i) ==
    /\ Len(rows[i]) >= 2
    /\ ~(Packed(rows) /\ i = 1)
    /\ Trim(GetCell(rows[i], 0)) # <<>>
    /\ Trim(GetCell(rows[i], 1)) # <<>>

DirectWrites(rows) ==
    [i \in 1..Len(rows) |->
        IF IsDirectRow(rows, i)
        THEN <<Trim(GetCell(rows[i], 0)), Trim(GetCell(rows[i], 1))>>
        ELSE Skip]

\* the order in which the three strategies write into mapping
StrategyOrder_directFirst(rows) ==
    DirectWrites(rows) \o PackedWrites(rows) \o FallbackWrites(rows)
StrategyOrder(rows) ==
    PackedWrites(rows) \o FallbackWrites(rows) \o DirectWrites(rows)

EmptyMapping == <<>>

MappingFromRows(rows) == PutAll(EmptyMapping, StrategyOrder(rows))

-----------------------------------------------------------------------------
(* parseCsv                                                                *)

QUOTE == 34
COMMA == 44

\* the first position >= i of text whose code unit is in S, or Len(text) + 1
NextIn(text, i, S) ==
    LET hits == {k \in i..Len(text) : text[k] \in S} IN
    IF hits = {} THEN Len(text) + 1 ELSE SetMin(hits)

\* the loop of parseCsv from position i with the rows, the row and the field
\* built so far; a run of ordinary characters is appended to the field at once
RECURSIVE ParseFrom(_, _, _, _, _, _)
ParseFrom(text, i, rows, row, field, inQuotes) ==
    IF i > Len(text) THEN Append(rows, Append(row, field))
    ELSE IF inQuotes
    THEN LET q == NextIn(text, i, {QUOTE})
             f == field \o SubSeq(text, i, q - 1)
         IN IF q > Len(text) THEN ParseFrom(text, q, rows, row, f, TRUE)
            ELSE IF q + 1 <= Len(text) /\ text[q + 1] = QUOTE
                 THEN ParseFrom(text, q + 2, rows, row, Append(f, QUOTE), TRUE)
                 ELSE ParseFrom(text, q + 1, rows, row, f, FALSE)
    ELSE LET p == NextIn(text, i, {QUOTE, COMMA, CR, LF})
             f == field \o SubSeq(text, i, p - 1)
         IN IF p > Len(text) THEN ParseFrom(text, p, rows, row, f, FALSE)
            ELSE IF text[p] = QUOTE THEN ParseFrom(text, p + 1, rows, row, f, TRUE)
            ELSE IF text[p] = COMMA
                 THEN ParseFrom(text, p + 1, rows, Append(row, f), <<>>, FALSE)
            ELSE IF text[p] = CR THEN ParseFrom(text, p + 1, rows, row, f, FALSE)
            ELSE ParseFrom(text, p + 1, Append(rows, Append(row, f)), <<>>, <<>>, FALSE)

\* last.every(c => c.trim() === "")
AllEmpty_blank(row) == \A j \in 1..Len(row) : row[j] = <<>>
AllEmpty(row) == \A j \in 1..Len(row) : Trim(row[j]) = <<>>

\* the trailing rows whose cells are all empty are popped
DropTrailingEmpty(rows) ==
    LET keep == {k \in 1..Len(rows) : ~AllEmpty(rows[k])} IN
    IF keep = {} THEN <<>> ELSE SubSeq(rows, 1, SetMax(keep))

ParseCsv(text) == DropTrailingEmpty(ParseFrom(text, 1, <<>>, <<>>, <<>>, FALSE))

-----------------------------------------------------------------------------
(* fetchFirstWorkingCsv and refreshMapping                                 *)

HeadLen == 2000
SnippetLen == 300
StatusOkMin == 200
StatusOkMax == 299
\* e.status is not a number: the stored status is undefined
NoStatus == 0 - 1

\* String.prototype.toLowerCase on a code unit (the cased letters of ASCII)
ToLower(ch) == IF ch \in 65..90 THEN ch + 32 ELSE ch

Slice(text, n) == SubSeq(text, 1, SeqMin(n, Len(text)))

LowerCase(text) == [i \in 1..Len(text) |-> ToLower(text[i])]

Includes(s, pat) ==
    \E i \in 1..(Len(s) - Len(pat) + 1) :
        \A j \in 1..Len(pat) : s[i + j - 1] = pat[j]

\* "<html" and "<!doctype html"
HtmlTag == <<60, 104, 116, 109, 108>>
DoctypeTag == <<60, 33, 100, 111, 99, 116, 121, 112, 101, 32, 104, 116, 109, 108>>

\* head of the body as the HTML test sees it
HeadOf_cased(text) == Slice(text, HeadLen)
HeadOf(text) == LowerCase(Slice(text, HeadLen))

LooksLikeHtml(text) ==
    Includes(HeadOf(text), HtmlTag) \/ Includes(HeadOf(text), DoctypeTag)

\* res.ok
ResOk(status) == status \in StatusOkMin..StatusOkMax

NoSnippet == <<>>

\* an Error object with the properties the code attaches to it
ErrorOf(msg, status, snippet, hasSnippet) ==
    [thrown |-> TRUE, message |-> msg, status |-> status,
     bodySnippet |-> snippet, hasSnippet |-> hasSnippet, text |-> <<>>]

NoError ==
    [thrown |-> FALSE, message |-> "", status |-> NoStatus,
     bodySnippet |-> NoSnippet, hasSnippet |-> FALSE, text |-> <<>>]

\* fetchFirstWorkingCsv(url) for the way the request settles: the error it
\* throws, or the text it returns
FetchFirstWorkingCsv(resp) ==
    IF resp.rejected THEN ErrorOf("Failed to fetch", NoStatus, NoSnippet, FALSE)
    ELSE IF ~ResOk(resp.status)
    THEN ErrorOf("HTTP", resp.status, Slice(resp.body, SnippetLen), TRUE)
    ELSE IF resp.body = <<>> \/ Trim(resp.body) = <<>>
    THEN ErrorOf("Empty CSV", resp.status, NoSnippet, FALSE)
    ELSE IF LooksLikeHtml(resp.body)
    THEN ErrorOf("Non-CSV response (HTML)", resp.status,
                 Slice(resp.body, SnippetLen), TRUE)
    ELSE [NoError EXCEPT !.status = resp.status, !.text = resp.body]

\* the error that leaves the try block of refreshMapping (229-249): the loop
\* over the candidate URLs catches whatever one attempt throws and goes on to
\* the next; with no candidate chosen the block throws "Mapping is empty"
EmptyMappingError == ErrorOf("Mapping is empty", NoStatus, NoSnippet, FALSE)

\* the mapping chosen by the loop, EmptyMapping when no candidate was chosen
ChosenMapping(fetched) ==
    IF fetched.thrown THEN EmptyMapping
    ELSE MappingFromRows(ParseCsv(fetched.text))

CaughtError(fetched) ==
    IF DOMAIN ChosenMapping(fetched) = {} THEN EmptyMappingError ELSE NoError

\* the record written in the catch block (280-290)
FailureRecord(e) ==
    [ok |-> FALSE, mapping |-> EmptyMapping, count |-> 0,
     error |-> e.message, status |-> e.status,
     privateOrAuthRequired |-> (e.status = 401 \/ e.status = 403),
     bodySnippet |-> IF e.hasSnippet THEN e.bodySnippet ELSE NoSnippet,
     hasSnippet |-> e.hasSnippet]

\* the record written on success (251-260, 597-606)
SuccessRecord(mapping) ==
    [ok |-> TRUE, mapping |-> mapping, count |-> Cardinality(DOMAIN mapping),
     error |-> "", status |-> NoStatus, privateOrAuthRequired |-> FALSE,
     bodySnippet |-> NoSnippet, hasSnippet |-> FALSE]

\* nothing is stored under the cache key
NoRecord ==
    [ok |-> FALSE, mapping |-> EmptyMapping, count |-> 0,
     error |-> "(none)", status |-> NoStatus, privateOrAuthRequired |-> FALSE,
     bodySnippet |-> NoSnippet, hasSnippet |-> FALSE]

\* sanitizeMappingObject on a stored value: the entries of an object in their
\* enumeration order; keys are trimmed, entries with an empty key or a blank
\* value are skipped, values are kept as they are
SanitizeMappingObject_keepBlank(obj) ==
    IF ~obj.isObject THEN EmptyMapping
    ELSE PutAll(EmptyMapping,
                [i \in 1..Len(obj.entries) |->
                    IF Trim(obj.entries[i][1]) = <<>>
                    THEN Skip
                    ELSE <<Trim(obj.entries[i][1]), obj.entries[i][2]>>])
SanitizeMappingObject(obj) ==
    IF ~obj.isObject THEN EmptyMapping
    ELSE PutAll(EmptyMapping,
                [i \in 1..Len(obj.entries) |->
                    IF Trim(obj.entries[i][1]) = <<>> \/ Trim(obj.entries[i][2]) = <<>>
                    THEN Skip
                    ELSE <<Trim(obj.entries[i][1]), obj.entries[i][2]>>])

\* { ...mapping, ...localOverrides }
Merge(mapping, overrides) ==
    [k \in (DOMAIN mapping) \cup (DOMAIN overrides) |->
        IF k \in DOMAIN overrides THEN overrides[k] ELSE mapping[k]]

\* the value refreshMapping returns
ResultOf(rec) == [ok |-> rec.ok, count |-> rec.count, error |-> rec.error]
NoResult == [ok |-> FALSE, count |-> 0, error |-> "(pending)"]

-----------------------------------------------------------------------------
(* The page as the content script sees it (content.js)                     *)
(*                                                                         *)
(* The page has the elements BODY > A > B, all of them DIV-like, and an     *)
(* element H that a script of the page created with the tag name HEAD and   *)
(* appended to the body.  A unit is one run of page text: a text node of    *)
(* the page, or the container that translateRoot put in its place.         *)

Elements == {"BODY", "A", "B", "H"}

TagName(e) ==
    CASE e = "BODY" -> "BODY"
      [] e = "H" -> "HEAD"
      [] OTHER -> "DIV"

NoElement == "(none)"

ParentOf(e) ==
    CASE e = "A" -> "BODY"
      [] e = "B" -> "A"
      [] e = "H" -> "BODY"
      [] OTHER -> NoElement

\* root.contains(e)
RECURSIVE Contains(_, _)
Contains(root, e) ==
    IF e = NoElement THEN FALSE
    ELSE e = root \/ Contains(root, ParentOf(e))

IGNORED_TAGS == {"SCRIPT", "STYLE", "TEXTAREA", "INPUT", "NOSCRIPT"}

Units == {"u1", "u2", "u3"}

\* a text node of the page
TextUnit(parent, text) ==
    [parent |-> parent, kind |-> "text", nodeValue |-> text,
     storedOriginal |-> Null, okechikaOriginal |-> Null,
     translated |-> Null, swapped |-> FALSE]

\* <ruby class="okechika-translated" data-okechika-original=...> found in the
\* page: the container format of earlier versions
LegacyUnit(parent, original) ==
    [parent |-> parent, kind |-> "legacy", nodeValue |-> Null,
     storedOriginal |-> Null, okechikaOriginal |-> original,
     translated |-> Null, swapped |-> FALSE]

\* String.prototype.split(/(\s+)/) without the empty parts: the maximal runs
\* of white space and of other characters
RECURSIVE SplitParts(_)
SplitParts(text) ==
    IF text = <<>> THEN <<>>
    ELSE LET sp == IsSpace(text[1])
             n == SetMax({k \in 1..Len(text) :
                             \A j \in 1..k : IsSpace(text[j]) = sp})
         IN <<SubSeq(text, 1, n)>> \o SplitParts(SubSeq(text, n + 1, Len(text)))

\* createSegmentedTranslationFragment: a part becomes a ruby pair when the
\* replacer changes it, and a plain text node otherwise
IsRubyPart(mapping, part) == ~AllSpace(part) /\ ReplaceFn(mapping, part) # part

HasRuby(mapping, original) ==
    \E i \in 1..Len(SplitParts(original)) :
        IsRubyPart(mapping, SplitParts(original)[i])

HasPlainText(mapping, original) ==
    \E i \in 1..Len(SplitParts(original)) :
        ~IsRubyPart(mapping, SplitParts(original)[i])

\* the translated side of the children of a filled container, in document
\* order: the element of each ruby pair that carries okechika-translated-base
\* (the base span, or the rt when rubySwap is on) and each plain text node
TranslatedSide(mapping, original) ==
    LET parts == SplitParts(original) IN
    Concat([i \in 1..Len(parts) |->
                IF AllSpace(parts[i]) THEN parts[i]
                ELSE ReplaceFn(mapping, parts[i])])

\* fillTranslatedContainer(container, original, replaceFn)
FilledContainer(parent, mapping, original, swap) ==
    [parent |-> parent, kind |-> "wrapper", nodeValue |-> Null,
     storedOriginal |-> Null, okechikaOriginal |-> original,
     translated |-> TranslatedSide(mapping, original), swapped |-> swap]

ShouldIgnoreTextNode(unit) ==
    \/ unit.parent = NoElement
    \/ TagName(unit.parent) \in IGNORED_TAGS
    \/ TagName(unit.parent) \in {"RT", "RP"}

CanWrapWithSpan(parentEl) ==
    /\ parentEl # NoElement
    /\ TagName(parentEl) \notin {"SCRIPT", "STYLE", "NOSCRIPT"}
    /\ TagName(parentEl) \notin {"HEAD", "HTML"}

\* storedOriginal ?? current
OriginalOf_current(unit) == unit.nodeValue
OriginalOf(unit) ==
    IF unit.storedOriginal # Null THEN unit.storedOriginal ELSE unit.nodeValue

\* Nodes as the observer and the scheduler tell them apart: an element of the
\* page, a container, a ruby pair or a plain text child inside the container
\* of a unit, the text node of a unit, and nodes that have left the document.
ElementNode(e) == <<"element", e>>
WrapperNode(u) == <<"wrapper", u>>
RubyNode(u) == <<"ruby", u>>
InnerTextNode(u) == <<"innerText", u>>
PageTextNode(u) == <<"pageText", u>>
DetachedRubyNode(u) == <<"detachedRuby", u>>
DetachedInnerTextNode(u) == <<"detachedInnerText", u>>
DetachedPageTextNode(u) == <<"detachedPageText", u>>

ChildListRecord(node) == [type |-> "childList", node |-> node]
CharacterDataRecord(node) == [type |-> "characterData", node |-> node]

\* one visit of translateRoot to the text of a unit (240-303): the unit
\* afterwards, the mutation records of the visit, and whether the nodes of the
\* unit were replaced by new ones
TranslateUnit(unit, u, mapping, swap) ==
    IF unit.kind = "wrapper"
    THEN [unit |-> FilledContainer(unit.parent, mapping, unit.okechikaOriginal, swap),
          recs |-> (IF HasRuby(mapping, unit.okechikaOriginal)
                    THEN {ChildListRecord(RubyNode(u))} ELSE {})
                   \cup (IF HasPlainText(mapping, unit.okechikaOriginal)
                         THEN {ChildListRecord(InnerTextNode(u))} ELSE {}),
          replaced |-> TRUE]
    ELSE IF unit.kind = "legacy"
    THEN [unit |-> FilledContainer(unit.parent, mapping, unit.okechikaOriginal, swap),
          recs |-> {ChildListRecord(WrapperNode(u))},
          replaced |-> TRUE]
    ELSE IF ShouldIgnoreTextNode(unit) \/ Trim(unit.nodeValue) = <<>>
    THEN [unit |-> unit, recs |-> {}, replaced |-> FALSE]
    ELSE LET original == OriginalOf(unit)
             after == ReplaceFn(mapping, original)
         IN IF after = unit.nodeValue
            THEN [unit |-> unit, recs |-> {}, replaced |-> FALSE]
            ELSE IF CanWrapWithSpan(unit.parent)
            THEN [unit |-> FilledContainer(unit.parent, mapping, original, swap),
                  recs |-> {ChildListRecord(WrapperNode(u))},
                  replaced |-> TRUE]
            ELSE [unit |-> [unit EXCEPT
                              !.storedOriginal =
                                  IF unit.storedOriginal = Null THEN original
                                  ELSE unit.storedOriginal,
                              !.nodeValue = after],
                  recs |-> {CharacterDataRecord(PageTextNode(u))},
                  replaced |-> FALSE]

\* a node of a unit that is replaced leaves the document: the records queued
\* for it now name a detached node
DetachedNode(node) ==
    CASE node[1] = "ruby" -> DetachedRubyNode(node[2])
      [] node[1] = "innerText" -> DetachedInnerTextNode(node[2])
      [] node[1] = "pageText" -> DetachedPageTextNode(node[2])
      [] OTHER -> node

Detach(recs, u) ==
    {IF m.node[1] # "element" /\ m.node[2] = u
     THEN [m EXCEPT !.node = DetachedNode(m.node)] ELSE m : m \in recs}

\* n visits to the same unit, one per root of the pass that contains it
RECURSIVE Visits(_, _, _, _, _)
Visits(unit, u, n, mapping, swap) ==
    IF n = 0 THEN [unit |-> unit, recs |-> {}, replaced |-> FALSE]
    ELSE LET before == Visits(unit, u, n - 1, mapping, swap)
             visit == TranslateUnit(before.unit, u, mapping, swap)
         IN [unit |-> visit.unit,
             recs |-> (IF visit.replaced THEN Detach(before.recs, u)
                       ELSE before.recs) \cup visit.recs,
             replaced |-> before.replaced \/ visit.replaced]

\* isInsideTranslated(node): the node is, or lies below, an element with the
\* class okechika-translated; a detached ruby pair has no such ancestor and a
\* detached text node has no parent element
IsInsideTranslated_never(node) == FALSE
IsInsideTranslated(node) == node[1] \in {"wrapper", "ruby", "innerText"}

\* the units whose text translateRoot(root) walks
UnitsBelow(root, doc) ==
    CASE root[1] = "element" ->
            {u \in Units : Contains(root[2], doc[u].parent)}
      [] root[1] \in {"wrapper", "ruby"} ->
            {u \in Units : u = root[2] /\ doc[u].kind = "wrapper"}
      [] OTHER -> {}

\* how often the loop of the scheduled pass (687-703) walks unit u
VisitCount(roots, doc, u) ==
    Cardinality({r \in roots : ~IsInsideTranslated(r) /\ u \in UnitsBelow(r, doc)})

\* translateRoot applied to every root of a pass: the outcome for each unit
PassOutcome(roots, doc, mapping, swap) ==
    [u \in Units |-> Visits(doc[u], u, VisitCount(roots, doc, u), mapping, swap)]

DocAfter(outcome) == [u \in Units |-> outcome[u].unit]

\* the record queue of the observer after a pass
QueueAfter(queue, outcome) ==
    {IF m.node[1] # "element" /\ outcome[m.node[2]].replaced
     THEN [m EXCEPT !.node = DetachedNode(m.node)] ELSE m : m \in queue}
    \cup UNION {outcome[u].recs : u \in Units}

\* translateAllRoots(fn): translateRoot(document.body, fn)
TranslateAllRoots(doc, mapping, swap) ==
    PassOutcome({ElementNode("BODY")}, doc, mapping, swap)

\* the root the observer callback puts into pendingRoots for a node that is
\* not inside a translated container (732, 741-742): an element itself, for a
\* text node its parent element, or document.body when it has none
PendingRootFor(node, doc) ==
    CASE node[1] = "pageText" -> ElementNode(doc[node[2]].parent)
      [] node[1] = "innerText" -> WrapperNode(node[2])
      [] node[1] \in {"detachedInnerText", "detachedPageText"} ->
            ElementNode("BODY")
      [] OTHER -> node

RootsOf(recs, doc) ==
    {PendingRootFor(m.node, doc) : m \in {x \in recs : ~IsInsideTranslated(x.node)}}

\* restoreTranslatedInRoot(document.body): every container becomes one new
\* text node holding data-okechika-original
RestoreTranslatedInRoot(doc) ==
    [u \in Units |->
        IF doc[u].kind \in {"wrapper", "legacy"}
        THEN TextUnit(doc[u].parent, doc[u].okechikaOriginal)
        ELSE doc[u]]

-----------------------------------------------------------------------------
(* Harness for the replacer: any mapping of the sample, any short text     *)

MaxTextLen == 3

\* a finite function given by its graph
MapOf(pairs) ==
    [k \in {p[1] : p \in pairs} |-> (CHOOSE p \in pairs : p[1] = k)[2]]

chA == Ltr(1)
chB == Ltr(2)
chC == Ltr(3)
chX == Ltr(24)
chY == Ltr(25)

SampleMappings ==
    { MapOf({ <<(<<chA, chB>>), <<chX>>>>, <<(<<chA>>), <<chY>>>> }),
      MapOf({ <<(<<chA>>), <<chB>>>>, <<(<<chB>>), <<chC>>>> }),
      MapOf({ <<(<<chA, chB, chC>>), <<chX>>>>, <<(<<chA, chB>>), <<chY>>>>,
              <<(<<chB>>), <<chA, chA>>>> }),
      MapOf({ <<(<<chB, chC>>), <<chX, chY>>>>, <<(<<chA, chB>>), <<chY>>>>,
              <<(<<chC>>), <<chA>>>> }),
      MapOf({ <<(<<chA, SP, chB>>), <<chX>>>>, <<(<<chB>>), <<chY>>>> }) }

ReplTexts == SeqsUpTo({chA, chB, chC, SP}, MaxTextLen)

\* the harness is not in use
ReplIdle ==
    /\ rMapping = <<>>
    /\ rText = <<>>
    /\ rOut = Null
    /\ rDone = FALSE

ReplInit ==
    /\ rMapping \in SampleMappings
    /\ rText \in ReplTexts
    /\ rOut = Null
    /\ rDone = FALSE

ApplyReplacer ==
    /\ ~rDone
    /\ ~ReplacerIsNull(rMapping)
    /\ rOut' = ReplaceFn(rMapping, rText)
    /\ rDone' = TRUE
    /\ UNCHANGED <<rMapping, rText>>

-----------------------------------------------------------------------------
(* Harness for mappingFromRows: tables built from a packed or unpacked     *)
(* row 0 and a choice of following rows                                    *)

\* cipher tokens are the ideographs from U+4E00, plain tokens the kana from U+3041
CipherTok(i) == 19967 + i
PlainTok(i) == 12352 + i

\* a cell of n single-character tokens separated by spaces (one ideographic),
\* the last token repeating the first when dup
PackedCell(n, base, dup) ==
    [i \in 1..(2 * n - 1) |->
        IF i % 2 = 0 THEN (IF i = 2 THEN IDSP ELSE SP)
        ELSE IF dup /\ n > 1 /\ i = 2 * n - 1 THEN base + 1
        ELSE base + (i + 1) \div 2]

DigitsOf(n) ==
    IF n < 10 THEN <<Digit0 + n>> ELSE <<Digit0 + (n \div 10), Digit0 + (n % 10)>>

\* the row ("plain token j", "n")
IdxRow(j, n) == << <<PlainTok(j)>>, DigitsOf(n) >>

\* n rows carrying the indices 0..n-1
IdxRows(n) == [j \in 1..n |-> IdxRow(j, j - 1)]

CipherCounts == {1, 25, PackedMin - 1, PackedMin, PackedMin + 1}

FirstRows ==
    LET A == {PackedCell(n, CipherTok(0), d) : n \in CipherCounts, d \in BOOLEAN}
        B == {<<>>, DigitsOf(3)}
               \cup {PackedCell(n, PlainTok(0), FALSE) :
                        n \in {PackedMin - 1, PackedMin, PackedMin + 2}}
    IN {<<ca>> : ca \in A} \cup {<<ca, cb>> : ca \in A, cb \in B}

FollowingRows ==
    { <<>>,
      IdxRows(IndexedMin),
      IdxRows(IndexedMin - 1),
      IdxRows(IndexedMin - 1) \o <<IdxRow(IndexedMin, IndexedMin + 1)>>,
      IdxRows(IndexedMin) \o <<IdxRow(IndexedMin + 1, 0)>>,
      IdxRows(IndexedMin) \o
          << << <<CipherTok(3)>>, <<chX>> >>,
             << <<SP, CipherTok(1), SP>>, <<chY, SP>> >>,
             << <<CipherTok(2)>>, DigitsOf(5) >> >>,
      << << <<chA>>, <<chX>> >>,
         << <<SP, chA>>, <<chY>> >>,
         << <<chB>> >>,
         << <<chC>>, <<>> >>,
         << <<chC>>, <<SP, IDSP>> >>,
         << <<>>, <<chX>> >> >> }

BuildIdle ==
    /\ bRows = <<>>
    /\ bMapping = EmptyMapping
    /\ bFallback = {}
    /\ bDone = FALSE

BuildInit ==
    /\ bRows \in {<<r0>> \o rest : r0 \in FirstRows, rest \in FollowingRows}
    /\ bMapping = EmptyMapping
    /\ bFallback = {}
    /\ bDone = FALSE

BuildMapping ==
    /\ ~bDone
    /\ bMapping' = MappingFromRows(bRows)
    /\ bFallback' = LET w == FallbackWrites(bRows) IN
                    {w[i][1] : i \in {j \in 1..Len(w) : w[j] # Skip}}
    /\ bDone' = TRUE
    /\ UNCHANGED bRows

-----------------------------------------------------------------------------
(* Harness for refreshMapping: one call, for every way the request settles *)

Filler(n) == [i \in 1..n |-> chA]

\* the sheet with padded and blank cells:  " a , x " / "" "",y / b,"" ""
SpacedSheet ==
    <<SP, chA, SP, COMMA, SP, chX, SP, LF,
      QUOTE, SP, QUOTE, COMMA, chY, LF,
      chB, COMMA, QUOTE, SP, QUOTE>>

\* the override object { " ": "x", "b ": " y ", "c": " " }
SpacedOverrides ==
    [isObject |-> TRUE,
     entries |-> << <<(<<SP>>), <<chX>>>>, <<(<<chB, SP>>), <<SP, chY, SP>>>>,
                    <<(<<chC>>), <<SP>>>> >>]

SampleBodies ==
    { <<>>,
      <<SP, LF>>,
      HtmlTag \o <<62>>,
      <<SP, 60, 72, 84, 77, 76, 62>>,
      <<60, 33, 68, 79, 67, 84, 89, 80, 69, 32, 104, 116, 109, 108, 62>>,
      Filler(HeadLen - Len(HtmlTag)) \o HtmlTag,
      Filler(HeadLen - Len(HtmlTag) + 1) \o HtmlTag,
      <<chA, COMMA, chX, CR, LF, chB, COMMA, QUOTE, chY, QUOTE, LF>>,
      <<chA, COMMA, LF>>,
      SpacedSheet }

SampleStatuses == {200, 204, 401, 403, 404, 500}

Responses ==
    {[rejected |-> FALSE, status |-> st, body |-> bd] :
        st \in SampleStatuses, bd \in SampleBodies}
    \cup {[rejected |-> TRUE, status |-> 0, body |-> <<>>]}

SampleOverrides ==
    { [isObject |-> FALSE, entries |-> <<>>],
      [isObject |-> TRUE, entries |-> << <<(<<SP, chA>>), <<chC>>>>, <<(<<chC>>), <<SP>>>> >>],
      SpacedOverrides }

RefreshIdle ==
    /\ fResp = [rejected |-> TRUE, status |-> 0, body |-> <<>>]
    /\ fOverride = [isObject |-> FALSE, entries |-> <<>>]
    /\ fPc = "off"
    /\ fFetched = NoError
    /\ fMapping = EmptyMapping
    /\ fPending = NoRecord
    /\ stored = NoRecord
    /\ fResult = NoResult

RefreshInit ==
    /\ fResp \in Responses
    /\ fOverride \in SampleOverrides
    /\ fPc = "idle"
    /\ fFetched = NoError
    /\ fMapping = EmptyMapping
    /\ fPending = NoRecord
    /\ stored = NoRecord
    /\ fResult = NoResult

\* refreshMapping is called and awaits the fetch
RefreshCall ==
    /\ fPc = "idle"
    /\ fPc' = "fetch"
    /\ UNCHANGED <<fResp, fOverride, fFetched, fMapping, fPending, stored, fResult>>

\* the request settles; refreshMapping runs on to its next await, which is the
\* read of the local overrides or, in the catch block, the write of the record
FetchSettles ==
    /\ fPc = "fetch"
    /\ LET fetched == FetchFirstWorkingCsv(fResp)
           e == CaughtError(fetched)
       IN /\ fFetched' = fetched
          /\ IF e.thrown
             THEN /\ fPending' = FailureRecord(e)
                  /\ fMapping' = fMapping
                  /\ fPc' = "store"
             ELSE /\ fMapping' = ChosenMapping(fetched)
                  /\ fPending' = fPending
                  /\ fPc' = "override"
    /\ UNCHANGED <<fResp, fOverride, stored, fResult>>

\* loadLocalOverrideMapping resolves; the success record is built
OverrideLoaded ==
    /\ fPc = "override"
    /\ fPending' = SuccessRecord(Merge(fMapping, SanitizeMappingObject(fOverride)))
    /\ fPc' = "store"
    /\ UNCHANGED <<fResp, fOverride, fFetched, fMapping, stored, fResult>>

\* storage.local.set resolves; refreshMapping returns
StorageSet ==
    /\ fPc = "store"
    /\ stored' = fPending
    /\ fResult' = ResultOf(fPending)
    /\ fPc' = "done"
    /\ UNCHANGED <<fResp, fOverride, fFetched, fMapping, fPending>>

-----------------------------------------------------------------------------
(* The background script as a whole: refreshMapping called from the        *)
(* lifecycle hooks (295-301, 641-647) and from REFRESH_MAPPING messages,    *)
(* GET_MAPPING requests (303-322, 649-668), and the storage area they       *)
(* share.  Every await is a step; storage reads and writes resolve or       *)
(* reject.                                                                  *)

MaxCalls == 2

\* the one URL buildCsvUrls returns (9-15, 363-369)
CsvUrl == "docs.google.com/spreadsheets/export?format=csv"

\* a field the record does not have
Absent == "(absent)"

\* the value stored under STORAGE_KEY: the record with its fields fetchedAt,
\* durationMs, sourceUrl and sourceUrlCandidates.  The two times are numbers
\* read from Date.now(); they are kept as the expressions that compute them.
Stamped(rec) ==
    [ok |-> rec.ok, mapping |-> rec.mapping, count |-> rec.count,
     error |-> rec.error, status |-> rec.status,
     privateOrAuthRequired |-> rec.privateOrAuthRequired,
     bodySnippet |-> rec.bodySnippet, hasSnippet |-> rec.hasSnippet,
     fetchedAt |-> "Date.now()",
     durationMs |-> IF rec.ok THEN "Date.now() - startedAt" ELSE Absent,
     sourceUrl |-> IF rec.ok THEN CsvUrl ELSE Absent,
     sourceUrlCandidates |-> IF rec.ok THEN <<>> ELSE <<CsvUrl>>]

\* no value under STORAGE_KEY
Unset ==
    [Stamped(NoRecord) EXCEPT !.fetchedAt = Absent, !.sourceUrlCandidates = <<>>]

\* { ok: false, error: "No mapping yet" } (307, 653)
NoMappingYet == [Unset EXCEPT !.error = "No mapping yet"]

\* what the GET_MAPPING branch passes to sendResponse (306-307, 652-653)
GetMappingResponse_raw(value) == value
GetMappingResponse(value) == IF value = Unset THEN NoMappingYet ELSE value

\* storage.local.set({[STORAGE_KEY]: rec}): the value under the key after
\* the write resolved (251-260, 280-290, 597-606, 626-636)
StorageLocalSet_assign(old, rec) ==
    IF old = Unset THEN rec
    ELSE [old EXCEPT !.ok = rec.ok, !.error = rec.error]
StorageLocalSet(old, rec) == rec

\* the error a rejected storage.local.set throws into the catch block; it has
\* no status and no bodySnippet property
StorageError == ErrorOf("storage.local.set rejected", NoStatus, NoSnippet, FALSE)

\* loadLocalOverrideMapping (354-361): a rejected read gives {}
LoadLocalOverrideMapping(value, resolved) ==
    IF resolved THEN SanitizeMappingObject(value) ELSE EmptyMapping

\* the mapping of the success record: { ...mapping, ...localOverrides } (595)
MergedMapping_remoteWins(mapping, overrides) == Merge(overrides, mapping)
MergedMapping(mapping, overrides) == Merge(mapping, overrides)

\* one refreshMapping call that has not started
IdleCall ==
    [pc |-> "idle", resp |-> [rejected |-> TRUE, status |-> 0, body |-> <<>>],
     mapping |-> EmptyMapping, overrides |-> EmptyMapping,
     pending |-> Unset, result |-> NoResult]

NoGet == [pc |-> "idle", response |-> Unset]

NoLastOk == [any |-> FALSE, mapping |-> EmptyMapping]

CacheIdle ==
    /\ variant = "off"
    /\ area = [cipherMapping |-> Unset,
               localOverrideMapping |-> [isObject |-> FALSE, entries |-> <<>>]]
    /\ calls = [c \in 1..MaxCalls |-> IdleCall]
    /\ getMapping = NoGet
    /\ written = FALSE
    /\ lastOk = NoLastOk

\* ---- inputs

\* the sheet  a,x / b,y  and a sheet without a usable row
CacheBodies ==
    { <<chA, COMMA, chX, LF, chB, COMMA, chY, LF>>,
      <<chA, COMMA, LF>> }

CacheResponses ==
    {[rejected |-> FALSE, status |-> 200, body |-> bd] : bd \in CacheBodies}
    \cup {[rejected |-> FALSE, status |-> 403, body |-> <<>>]}

\* the stored override object { " a": "c", "c": " ", "d": "x" }
CacheOverrides ==
    { [isObject |-> TRUE,
       entries |-> << <<(<<SP, chA>>), <<chC>>>>, <<(<<chC>>), <<SP>>>>,
                      <<(<<Ltr(4)>>), <<chX>>>> >>] }

\* the extension has just been installed: nothing is stored under STORAGE_KEY
CacheInit ==
    /\ variant \in {"Chrome", "FireFox"}
    /\ \E ov \in CacheOverrides :
          area = [cipherMapping |-> Unset, localOverrideMapping |-> ov]
    /\ calls = [c \in 1..MaxCalls |-> IdleCall]
    /\ getMapping = NoGet
    /\ written = FALSE
    /\ lastOk = NoLastOk

\* ---- refreshMapping, await by await

\* refreshMapping is called, by a lifecycle hook or by the listener for a
\* REFRESH_MAPPING message, and awaits the fetch; calls are numbered in the
\* order in which they start
RefreshMappingCalled ==
    \E c \in 1..MaxCalls, resp \in CacheResponses :
        /\ calls[c].pc = "idle"
        /\ \A d \in 1..(c - 1) : calls[d].pc # "idle"
        /\ calls' = [calls EXCEPT ![c] =
               [IdleCall EXCEPT !.pc = "fetch", !.resp = resp]]
        /\ UNCHANGED <<variant, area, getMapping, written, lastOk>>

\* the record of the catch block (269-290, 615-636), handed to
\* storage.local.set
CatchBlock(call, e) ==
    [call EXCEPT !.pc = "storeFailure",
                 !.pending = Stamped(FailureRecord(e))]

\* the success record (251-260, 597-606), handed to storage.local.set
SuccessBlock(call, mapping, overrides) ==
    [call EXCEPT !.pc = "store",
                 !.mapping = mapping,
                 !.overrides = overrides,
                 !.pending = Stamped(SuccessRecord(MergedMapping(mapping, overrides)))]

\* the request settles: the loop over the URLs ends, and refreshMapping runs
\* to its next await.  The Chrome script builds the success record from the
\* mapping of the sheet (247-260); the Firefox script first awaits
\* loadLocalOverrideMapping (594).
CsvFetchSettles ==
    \E c \in 1..MaxCalls :
        /\ calls[c].pc = "fetch"
        /\ LET fetched == FetchFirstWorkingCsv(calls[c].resp)
               e == CaughtError(fetched)
           IN calls' = [calls EXCEPT ![c] =
                  IF e.thrown THEN CatchBlock(calls[c], e)
                  ELSE IF variant = "FireFox"
                  THEN [calls[c] EXCEPT !.pc = "override",
                                        !.mapping = ChosenMapping(fetched)]
                  ELSE SuccessBlock(calls[c], ChosenMapping(fetched),
                                    EmptyMapping)]
        /\ UNCHANGED <<variant, area, getMapping, written, lastOk>>

\* the read of LOCAL_OVERRIDE_KEY resolves or rejects (594)
OverridesRead ==
    \E c \in 1..MaxCalls, resolved \in BOOLEAN :
        /\ calls[c].pc = "override"
        /\ calls' = [calls EXCEPT ![c] =
               SuccessBlock(calls[c], calls[c].mapping,
                            LoadLocalOverrideMapping(area.localOverrideMapping,
                                                     resolved))]
        /\ UNCHANGED <<variant, area, getMapping, written, lastOk>>

\* refreshMapping returns; the listener for REFRESH_MAPPING passes the result
\* to sendResponse (311-314, 657-660)
Returned(call) ==
    [call EXCEPT !.pc = "done", !.result = ResultOf(call.pending)]

\* storage.local.set resolves, on either path
CacheWriteResolves ==
    \E c \in 1..MaxCalls :
        /\ calls[c].pc \in {"store", "storeFailure"}
        /\ area' = [area EXCEPT !.cipherMapping =
                        StorageLocalSet(area.cipherMapping, calls[c].pending)]
        /\ lastOk' = IF calls[c].pending.ok
                     THEN [any |-> TRUE, mapping |-> calls[c].pending.mapping]
                     ELSE lastOk
        /\ written' = TRUE
        /\ calls' = [calls EXCEPT ![c] = Returned(calls[c])]
        /\ UNCHANGED <<variant, getMapping>>

\* storage.local.set rejects: in the try block the catch block takes over and
\* writes a failure record; in the catch block the rejection leaves
\* refreshMapping, and the listener's sendResponse is never reached
CacheWriteRejects ==
    \E c \in 1..MaxCalls :
        /\ calls[c].pc \in {"store", "storeFailure"}
        /\ calls' = [calls EXCEPT ![c] =
               IF calls[c].pc = "store"
               THEN CatchBlock(calls[c], StorageError)
               ELSE [calls[c] EXCEPT !.pc = "rejected"]]
        /\ UNCHANGED <<variant, area, getMapping, written, lastOk>>

\* ---- GET_MAPPING

\* a GET_MAPPING message arrives and awaits the read of STORAGE_KEY
GetMappingRequested ==
    /\ getMapping.pc # "reading"
    /\ getMapping' = [NoGet EXCEPT !.pc = "reading"]
    /\ UNCHANGED <<variant, area, calls, written, lastOk>>

\* the read resolves and the response is sent, or it rejects and no response
\* is sent
GetMappingRead ==
    \E resolved \in BOOLEAN :
        /\ getMapping.pc = "reading"
        /\ getMapping' =
              IF resolved
              THEN [getMapping EXCEPT
                       !.pc = "answered",
                       !.response = GetMappingResponse(area.cipherMapping)]
              ELSE [getMapping EXCEPT !.pc = "lost"]
        /\ UNCHANGED <<variant, area, calls, written, lastOk>>

-----------------------------------------------------------------------------
(* The rewriting engine of one page: startIfNeeded, the retry timers, the   *)
(* observer callback, the scheduled pass, the rubySwap and enabled toggles, *)
(* and the page's own scripts.  One run of the engine is followed: from the *)
(* start with enabled on to the moment enabled is switched off.            *)

MaxPageOps == 2
MaxToggles == 1

\* retryDelaysMs.length
RetryCount == 3

chD == Ltr(4)

DomMappings ==
    { MapOf({ <<(<<chA>>), <<chB>>>>, <<(<<chB>>), <<chC>>>> }),
      MapOf({ <<(<<chA>>), <<chB>>>>, <<(<<chA, SP, chD>>), <<chX>>>> }) }

PageTexts == { <<chA>>, <<chD>>, <<SP>> }

MoveTargets == {"B"}

InitialDocs ==
    { [u \in Units |->
          CASE u = "u1" -> TextUnit("H", <<chA>>)
            [] u = "u2" -> second
            [] OTHER -> TextUnit("A", <<chD>>)] :
      second \in {TextUnit("B", <<chA, SP, chD>>),
                  LegacyUnit("B", <<chA, SP, chD>>)} }

NoGhost == [u \in Units |-> Null]

\* what a unit shows as its translation
Render(unit) == IF unit.kind = "wrapper" THEN unit.translated ELSE unit.nodeValue

\* the unit carries a rewrite of translateRoot
Rewritten(unit) == unit.kind = "wrapper" \/ unit.storedOriginal # Null

\* no pass has left records in the queue of the observer
NoPassLog == [by |-> "none", guard |-> FALSE, recs |-> {}]

DomIdle ==
    /\ dom = [u \in Units |-> TextUnit(NoElement, <<>>)]
    /\ replaceFn = EmptyMapping
    /\ rubySwap = FALSE
    /\ enabled = FALSE
    /\ phase = "off"
    /\ observer = FALSE
    /\ records = {}
    /\ pendingRoots = {}
    /\ scheduled = FALSE
    /\ passQueue = 0
    /\ notified = 0
    /\ isApplying = FALSE
    /\ retryTimers = 0
    /\ pageOps = 0
    /\ toggles = 0
    /\ firstRender = NoGhost
    /\ textAtWrap = NoGhost
    /\ selfRoots = {}
    /\ lastPass = NoPassLog

DomInit ==
    /\ dom \in InitialDocs
    /\ replaceFn \in DomMappings
    /\ rubySwap \in BOOLEAN
    /\ enabled = TRUE
    /\ phase = "loading"
    /\ observer = FALSE
    /\ records = {}
    /\ pendingRoots = {}
    /\ scheduled = FALSE
    /\ passQueue = 0
    /\ notified = 0
    /\ isApplying = FALSE
    /\ retryTimers = 0
    /\ pageOps = 0
    /\ toggles = 0
    /\ firstRender = NoGhost
    /\ textAtWrap = NoGhost
    /\ selfRoots = {}
    /\ lastPass = NoPassLog

\* no microtask is pending: a new task (timer, storage event) can run
MicrotasksDone == records = {} /\ passQueue = 0

\* the passes over the given roots with the current replacer, and what the
\* observer records of them
RewritePass(roots, swap, by, guard) ==
    LET outcome == PassOutcome(roots, dom, replaceFn, swap)
        own == UNION {outcome[u].recs : u \in Units}
        first == [u \in Units |-> TranslateUnit(dom[u], u, replaceFn, swap).unit]
    IN /\ dom' = DocAfter(outcome)
       /\ records' = IF observer THEN QueueAfter(records, outcome) ELSE records
       /\ firstRender' =
            [u \in Units |->
                IF /\ firstRender[u] = Null
                   /\ VisitCount(roots, dom, u) > 0
                   /\ Rewritten(first[u])
                THEN Render(first[u]) ELSE firstRender[u]]
       /\ textAtWrap' =
            [u \in Units |->
                IF dom[u].kind = "text" /\ outcome[u].unit.kind = "wrapper"
                THEN dom[u].nodeValue ELSE textAtWrap[u]]
       /\ lastPass' = IF observer /\ own # {}
                      THEN [by |-> by, guard |-> guard, recs |-> own]
                      ELSE NoPassLog

NoPass == UNCHANGED <<dom, records, firstRender, textAtWrap, lastPass>>

\* startIfNeeded from the initial pass on (621-757)
StartIfNeeded ==
    /\ phase = "loading"
    /\ enabled
    /\ RewritePass({ElementNode("BODY")}, rubySwap, "initial", isApplying)
    /\ retryTimers' = RetryCount
    /\ scheduled' = FALSE
    /\ passQueue' = 0
    /\ notified' = 0
    /\ pendingRoots' = {}
    /\ isApplying' = FALSE
    /\ observer' = TRUE
    /\ phase' = "running"
    /\ UNCHANGED <<replaceFn, rubySwap, enabled, pageOps, toggles, selfRoots>>

\* one of the retry timers fires (640-651)
RetryPass ==
    /\ retryTimers > 0
    /\ MicrotasksDone
    /\ retryTimers' = retryTimers - 1
    /\ IF enabled
       THEN RewritePass({ElementNode("BODY")}, rubySwap, "retry", isApplying)
       ELSE NoPass
    /\ UNCHANGED <<replaceFn, rubySwap, enabled, phase, observer, pendingRoots,
                   scheduled, passQueue, notified, isApplying, pageOps, toggles, selfRoots>>

\* a script of the page assigns to the data of one of its text nodes
PageSetText ==
    /\ pageOps < MaxPageOps
    /\ \E u \in Units, t \in PageTexts :
        /\ dom[u].kind = "text"
        /\ dom[u].nodeValue # t
        /\ dom' = [dom EXCEPT ![u].nodeValue = t]
        /\ records' = IF observer
                      THEN records \cup {CharacterDataRecord(PageTextNode(u))}
                      ELSE records
    /\ pageOps' = pageOps + 1
    /\ UNCHANGED <<replaceFn, rubySwap, enabled, phase, observer, pendingRoots,
                   scheduled, passQueue, notified, isApplying, retryTimers, toggles, firstRender,
                   textAtWrap, selfRoots, lastPass>>

\* a script of the page appends one of its text nodes to another element
PageMove ==
    /\ pageOps < MaxPageOps
    /\ \E u \in Units, e \in MoveTargets :
        /\ dom[u].kind = "text"
        /\ dom[u].parent # e
        /\ dom' = [dom EXCEPT ![u].parent = e]
        /\ records' = IF observer
                      THEN records \cup {ChildListRecord(PageTextNode(u))}
                      ELSE records
    /\ pageOps' = pageOps + 1
    /\ UNCHANGED <<replaceFn, rubySwap, enabled, phase, observer, pendingRoots,
                   scheduled, passQueue, notified, isApplying, retryTimers, toggles, firstRender,
                   textAtWrap, selfRoots, lastPass>>

EngineInserted ==
    {"wrapper", "ruby", "innerText", "detachedRuby", "detachedInnerText"}

\* scheduleTranslate up to queueMicrotask (676-679): the flag and the number of
\* queued pass microtasks after the call
ScheduleTranslate_unguarded(flag, queued) ==
    [scheduled |-> TRUE, queued |-> queued + 1]
ScheduleTranslate(flag, queued) ==
    IF flag THEN [scheduled |-> flag, queued |-> queued]
    ELSE [scheduled |-> TRUE, queued |-> queued + 1]

\* the MutationObserver callback with the queued records (724-749)
ObserverCallback ==
    /\ observer
    /\ records # {}
    /\ records' = {}
    /\ lastPass' = NoPassLog
    /\ IF isApplying
       THEN UNCHANGED <<pendingRoots, scheduled, passQueue, notified, selfRoots>>
       ELSE /\ pendingRoots' = pendingRoots \cup RootsOf(records, dom)
            /\ selfRoots' =
                 RootsOf({m \in records : m.node[1] \in EngineInserted}, dom)
            /\ IF enabled
               THEN /\ scheduled' = ScheduleTranslate(scheduled, passQueue).scheduled
                    /\ passQueue' = ScheduleTranslate(scheduled, passQueue).queued
                    /\ notified' = notified + 1
               ELSE UNCHANGED <<scheduled, passQueue, notified>>
    /\ UNCHANGED <<dom, replaceFn, rubySwap, enabled, phase, observer,
                   isApplying, retryTimers, pageOps, toggles, firstRender,
                   textAtWrap>>

\* Array.from(pendingRoots) (681): the batch the loop at 687 walks
DrainedRoots_first(pending) ==
    IF pending = {} THEN {} ELSE {CHOOSE r \in pending : TRUE}
DrainedRoots(pending) == pending

\* the microtask queued by scheduleTranslate (679-721); isApplying is set
\* while the roots are walked and released in the finally block
ScheduledPass ==
    /\ passQueue > 0
    /\ passQueue' = passQueue - 1
    /\ notified' = 0
    /\ scheduled' = FALSE
    /\ pendingRoots' = {}
    /\ IF isApplying
       THEN NoPass
       ELSE RewritePass(DrainedRoots(pendingRoots), rubySwap, "scheduled", TRUE)
    /\ isApplying' = FALSE
    /\ selfRoots' = {}
    /\ UNCHANGED <<replaceFn, rubySwap, enabled, phase, observer, retryTimers,
                   pageOps, toggles>>

\* storage.onChanged with a new value of okechikaRubySwap (779-792)
ToggleRubySwap ==
    /\ phase \in {"running", "stopped"}
    /\ toggles < MaxToggles
    /\ MicrotasksDone
    /\ rubySwap' = ~rubySwap
    /\ toggles' = toggles + 1
    /\ IF enabled
       THEN RewritePass({ElementNode("BODY")}, ~rubySwap, "rerender", isApplying)
       ELSE NoPass
    /\ UNCHANGED <<replaceFn, enabled, phase, observer, pendingRoots, scheduled,
                   passQueue, notified,
                   isApplying, retryTimers, pageOps, selfRoots>>

\* storage.onChanged with okechikaEnabled switched off (769-777):
\* stopAndRestore (530-542)
StopAndRestore ==
    /\ phase = "running"
    /\ enabled
    /\ MicrotasksDone
    /\ enabled' = FALSE
    /\ observer' = FALSE
    /\ records' = {}
    /\ dom' = RestoreTranslatedInRoot(dom)
    /\ phase' = "stopped"
    /\ firstRender' = [u \in Units |->
                          IF dom[u].kind = "text" THEN firstRender[u] ELSE Null]
    /\ textAtWrap' = NoGhost
    /\ lastPass' = NoPassLog
    /\ UNCHANGED <<replaceFn, rubySwap, pendingRoots, scheduled, passQueue, notified, isApplying,
                   retryTimers, pageOps, toggles, selfRoots>>

-----------------------------------------------------------------------------
(* The content script from its load to any later time (510-817): the first *)
(* startIfNeeded call, the storage.onChanged listener registered after it, *)
(* startIfNeeded calls suspended at their awaits (550-556), stopAndRestore, *)
(* the retry timers, the observer and its pass.  A startIfNeeded call that  *)
(* finds an observer left by an earlier call replaces it; the observer that *)
(* is no longer referenced stays connected.  Its records share the one      *)
(* queue of the model while `observer` is set and are left out afterwards.  *)

MaxEvents == 2
MaxStarts == 2

\* the page of the lifecycle runs: text "a" in H and in B
LifeDoc ==
    [u \in Units |->
        CASE u = "u1" -> TextUnit("H", <<chA>>)
          [] u = "u2" -> TextUnit("B", <<chA>>)
          [] OTHER -> TextUnit("A", <<chD>>)]

LifeIdle ==
    /\ domainOnly = FALSE
    /\ allowed = FALSE
    /\ awaiting = 0
    /\ leaked = 0
    /\ started = FALSE
    /\ events = 0

\* the flags have been read from storage (524-526); the first startIfNeeded
\* call (761) has not been made yet.  The page's scripts make one mutation.
LifeInit ==
    /\ dom = LifeDoc
    /\ replaceFn = MapOf({ <<(<<chA>>), <<chB>>>>, <<(<<chB>>), <<chC>>>> })
    /\ rubySwap = FALSE
    /\ enabled \in BOOLEAN
    /\ domainOnly \in BOOLEAN
    /\ allowed \in BOOLEAN
    /\ phase = "loading"
    /\ observer = FALSE
    /\ records = {}
    /\ pendingRoots = {}
    /\ scheduled = FALSE
    /\ passQueue = 0
    /\ notified = 0
    /\ isApplying = FALSE
    /\ retryTimers = 0
    /\ pageOps = MaxPageOps - 1
    /\ toggles = 0
    /\ firstRender = NoGhost
    /\ textAtWrap = NoGhost
    /\ selfRoots = {}
    /\ lastPass = NoPassLog
    /\ awaiting = 0
    /\ leaked = 0
    /\ started = FALSE
    /\ events = 0

\* the three early returns of startIfNeeded (545-547)
PassesGuards(en, dOnly, obs) == en /\ ~(dOnly /\ ~allowed) /\ ~obs

\* a call of startIfNeeded with the given flags: it returns at once or is
\* suspended at `await refreshMappingInBackground()` (550)
StartCall(en, dOnly, obs) ==
    awaiting' = IF PassesGuards(en, dOnly, obs) THEN awaiting + 1 ELSE awaiting

\* stopAndRestore (530-542); observers that are no longer referenced stay
RestoreAll ==
    /\ observer' = FALSE
    /\ records' = {}
    /\ dom' = RestoreTranslatedInRoot(dom)
    /\ firstRender' = [u \in Units |->
                          IF dom[u].kind = "text" THEN firstRender[u] ELSE Null]
    /\ textAtWrap' = NoGhost
    /\ lastPass' = NoPassLog

\* `await startIfNeeded()` at the top level (761)
FirstStart ==
    /\ phase = "loading"
    /\ StartCall(enabled, domainOnly, observer)
    /\ phase' = IF PassesGuards(enabled, domainOnly, observer)
                THEN "starting" ELSE "listening"
    /\ UNCHANGED <<dom, replaceFn, rubySwap, enabled, observer, records,
                   pendingRoots, scheduled, passQueue, notified, isApplying,
                   retryTimers, pageOps, toggles, firstRender, textAtWrap,
                   selfRoots, lastPass, domainOnly, allowed, leaked, started, events>>

\* a suspended startIfNeeded call gets the answer to GET_MAPPING and runs to
\* its end (556-757): without a usable mapping it returns; otherwise it makes
\* the initial pass, sets the retry timers and connects a new observer with
\* its own scheduled, pendingRoots and isApplying.  The flags enabled and
\* domainOnly are not read again.
StartResumes ==
    /\ awaiting > 0
    /\ MicrotasksDone
    /\ awaiting' = awaiting - 1
    /\ phase' = IF phase = "starting" THEN "listening" ELSE phase
    /\ \E usable \in BOOLEAN :
          IF usable
          THEN /\ RewritePass({ElementNode("BODY")}, rubySwap, "initial", FALSE)
               /\ retryTimers' = retryTimers + RetryCount
               /\ observer' = TRUE
               /\ leaked' = IF observer THEN leaked + 1 ELSE leaked
               /\ started' = TRUE
               /\ pendingRoots' = {}
               /\ scheduled' = FALSE
               /\ isApplying' = FALSE
          ELSE /\ NoPass
               /\ UNCHANGED <<retryTimers, observer, leaked, started,
                              pendingRoots, scheduled, isApplying>>
    /\ UNCHANGED <<replaceFn, rubySwap, enabled, passQueue, notified, pageOps,
                   toggles, selfRoots, domainOnly, allowed, events>>

\* storage.onChanged with a new value of okechikaEnabled (769-777)
EnabledChanged ==
    /\ phase = "listening"
    /\ events < MaxEvents
    /\ MicrotasksDone
    /\ events' = events + 1
    /\ enabled' = ~enabled
    /\ IF ~enabled
       THEN /\ StartCall(TRUE, domainOnly, observer)
            /\ awaiting' <= MaxStarts
            /\ NoPass
            /\ UNCHANGED observer
       ELSE /\ RestoreAll
            /\ UNCHANGED awaiting
    /\ UNCHANGED <<replaceFn, rubySwap, phase, pendingRoots, scheduled,
                   passQueue, notified, isApplying, retryTimers, pageOps,
                   toggles, selfRoots, domainOnly, allowed, leaked, started>>

\* storage.onChanged with a new value of okechikaRubySwap (779-792)
RubySwapChanged ==
    /\ phase = "listening"
    /\ events < MaxEvents
    /\ MicrotasksDone
    /\ events' = events + 1
    /\ rubySwap' = ~rubySwap
    /\ IF enabled /\ started
       THEN RewritePass({ElementNode("BODY")}, ~rubySwap, "rerender", isApplying)
       ELSE NoPass
    /\ UNCHANGED <<replaceFn, enabled, phase, observer, pendingRoots, scheduled,
                   passQueue, notified, isApplying, retryTimers, pageOps,
                   toggles, selfRoots, domainOnly, allowed, awaiting, leaked,
                   started>>

\* storage.onChanged with a new value of okechikaDomainOnly (794-804)
DomainOnlyChanged ==
    /\ phase = "listening"
    /\ events < MaxEvents
    /\ MicrotasksDone
    /\ events' = events + 1
    /\ domainOnly' = ~domainOnly
    /\ IF ~enabled
       THEN /\ NoPass
            /\ UNCHANGED <<observer, awaiting>>
       ELSE IF ~domainOnly /\ ~allowed
       THEN /\ RestoreAll
            /\ UNCHANGED awaiting
       ELSE /\ StartCall(enabled, ~domainOnly, observer)
            /\ awaiting' <= MaxStarts
            /\ NoPass
            /\ UNCHANGED observer
    /\ UNCHANGED <<replaceFn, rubySwap, enabled, phase, pendingRoots, scheduled,
                   passQueue, notified, isApplying, retryTimers, pageOps,
                   toggles, selfRoots, allowed, leaked, started>>

-----------------------------------------------------------------------------
(* Harness for parseCsv: every text of up to MaxCsvLen code units over the  *)
(* characters that parseCsv tells apart and two ordinary ones               *)

MaxCsvLen == 4

CsvAlphabet == {QUOTE, COMMA, LF, CR, chA, SP}

CsvIdle ==
    /\ cText = <<>>
    /\ cRows = <<>>
    /\ cDone = FALSE

CsvInit ==
    /\ cText \in SeqsUpTo(CsvAlphabet, MaxCsvLen)
    /\ cRows = <<>>
    /\ cDone = FALSE

ParseCsvCalled ==
    /\ ~cDone
    /\ cRows' = ParseCsv(cText)
    /\ cDone' = TRUE
    /\ UNCHANGED cText

-----------------------------------------------------------------------------
(* translateRoot and translateFormFields on a page with contenteditable     *)
(* regions, text inputs, a focused element and DOM writes that may throw    *)
(* (content.js 79-93, 226-345, 586-652, 676-722).  The body holds, in       *)
(* document order: a text node outside any region, a text node directly in  *)
(* the region O, a text node in the region I nested in O (both elements     *)
(* carry contenteditable="true"), and two text inputs outside the regions.  *)

MaxFocusMoves == 1
MaxWalkPasses == 1

TextNodes == <<"t1", "t2", "t3">>
Fields == <<"f1", "f2">>

\* parentElement of the text nodes
WalkParent(t) ==
    CASE t = "t1" -> "BODY"
      [] t = "t2" -> "O"
      [] OTHER -> "I"

\* the elements that can be document.activeElement
Actives == {"BODY", "O", "I", "f1", "f2"}

\* parent.closest("[contenteditable='true']") (85)
ClosestEditable(parentEl) ==
    IF parentEl \in {"O", "I"} THEN parentEl ELSE NoElement

\* editable.contains(active) (90)
RegionContains(editable, active) ==
    CASE editable = "O" -> active \in {"O", "I"}
      [] editable = "I" -> active = "I"
      [] OTHER -> FALSE

\* the contenteditable test of shouldIgnoreTextNode (85-91)
IgnoredWhileEditing(t, active) ==
    LET editable == ClosestEditable(WalkParent(t)) IN
    editable # NoElement /\ RegionContains(editable, active)

WalkMapping == MapOf({ <<(<<chA>>), <<chB>>>> })

\* a text node of the page, or the text a container shows in its place
WalkText(value) == [value |-> value, original |-> Null, wrapped |-> FALSE]

\* a text input: its value, data-okechika-original and style.fontFamily
WalkField(value) == [value |-> value, marker |-> Null, styled |-> FALSE]

\* translateRoot has a write to make for the text node (241-284)
NeedsWrite(n, t, active) ==
    /\ ~IgnoredWhileEditing(t, active)
    /\ Trim(n.value) # <<>>
    /\ n.wrapped \/ ReplaceFn(WalkMapping, n.value) # n.value

\* the container put in place of the text node, or refilled (252-291)
Wrapped(n) ==
    LET original == IF n.wrapped THEN n.original ELSE n.value IN
    [value |-> ReplaceFn(WalkMapping, original), original |-> original,
     wrapped |-> TRUE]

\* the loop of translateRoot(document.body) from the i-th text node on
\* (240-303): a write that throws ends the loop and the call
RECURSIVE TranslateRootFrom(_, _, _, _)
TranslateRootFrom(texts, i, active, faulty) ==
    IF i > Len(TextNodes) THEN [texts |-> texts, thrown |-> FALSE]
    ELSE LET t == TextNodes[i] IN
         IF ~NeedsWrite(texts[t], t, active)
         THEN TranslateRootFrom(texts, i + 1, active, faulty)
         ELSE IF t \in faulty
         THEN [texts |-> texts, thrown |-> TRUE]
         ELSE TranslateRootFrom([texts EXCEPT ![t] = Wrapped(texts[t])],
                                i + 1, active, faulty)

\* one iteration of the loop of translateFormFields (316-342); a throw of
\* `el.value = after` is caught and the loop goes on
TranslateField(el, isActive, throws) ==
    IF isActive \/ Trim(el.value) = <<>> THEN el
    ELSE LET original == IF el.marker # Null THEN el.marker ELSE el.value
             after == ReplaceFn(WalkMapping, original)
         IN IF after = el.value THEN el
            ELSE IF throws
            THEN [el EXCEPT !.marker = original]
            ELSE [value |-> after, marker |-> original, styled |-> TRUE]

\* translateFormFields(document.body, fn)
TranslateFormFields(fields, active, faulty) ==
    [f \in DOMAIN fields |-> TranslateField(fields[f], active = f, f \in faulty)]

WalkIdle ==
    /\ wTexts = <<>>
    /\ wFields = <<>>
    /\ wActive = "BODY"
    /\ wFaulty = {}
    /\ wPhase = "off"
    /\ wObserver = FALSE
    /\ wTimers = 0
    /\ wMoves = 0
    /\ wPasses = 0

\* startIfNeeded has the replacer and is about to make the initial pass
\* (621); at most one node or field has a write that throws
WalkInit ==
    /\ wTexts = [t \in {"t1", "t2", "t3"} |-> WalkText(<<chA>>)]
    /\ wFields \in {[f \in {"f1", "f2"} |->
                        WalkField(IF f = "f1" THEN <<chA>> ELSE v)] :
                    v \in {<<chA>>, <<SP>>}}
    /\ wActive \in Actives
    /\ wFaulty \in {{}} \cup {{x} : x \in {"t1", "t2", "t3", "f1", "f2"}}
    /\ wPhase = "loading"
    /\ wObserver = FALSE
    /\ wTimers = 0
    /\ wMoves = 0
    /\ wPasses = 0

\* translateAllRoots(fn) (586-609): translateFormFields is not reached when
\* translateRoot throws
WalkAllRoots(walked) ==
    /\ wTexts' = walked.texts
    /\ wFields' = IF walked.thrown THEN wFields
                  ELSE TranslateFormFields(wFields, wActive, wFaulty)

\* the initial pass and the rest of startIfNeeded (621-757): an exception of
\* the pass leaves startIfNeeded and is caught at 806
WalkInitial ==
    /\ wPhase = "loading"
    /\ LET walked == TranslateRootFrom(wTexts, 1, wActive, wFaulty) IN
       /\ WalkAllRoots(walked)
       /\ wPhase' = IF walked.thrown THEN "failed" ELSE "running"
       /\ wTimers' = IF walked.thrown THEN 0 ELSE RetryCount
       /\ wObserver' = ~walked.thrown
    /\ UNCHANGED <<wActive, wFaulty, wMoves, wPasses>>

\* a retry timer fires (640-651): the exception is caught around the pass
WalkRetry ==
    /\ wPhase = "running"
    /\ wTimers > 0
    /\ wTimers' = wTimers - 1
    /\ WalkAllRoots(TranslateRootFrom(wTexts, 1, wActive, wFaulty))
    /\ UNCHANGED <<wActive, wFaulty, wPhase, wObserver, wMoves, wPasses>>

\* the scheduled pass with document.body in its batch (687-703): both calls
\* have their own try
WalkScheduled ==
    /\ wPhase = "running"
    /\ wObserver
    /\ wPasses < MaxWalkPasses
    /\ wPasses' = wPasses + 1
    /\ wTexts' = TranslateRootFrom(wTexts, 1, wActive, wFaulty).texts
    /\ wFields' = TranslateFormFields(wFields, wActive, wFaulty)
    /\ UNCHANGED <<wActive, wFaulty, wPhase, wObserver, wTimers, wMoves>>

\* the user moves the focus
FocusMoves ==
    /\ wMoves < MaxFocusMoves
    /\ wMoves' = wMoves + 1
    /\ wActive' \in Actives \ {wActive}
    /\ UNCHANGED <<wTexts, wFields, wFaulty, wPhase, wObserver, wTimers,
                   wPasses>>

\* what the user types or a script of the page assigns to a field
PutValue == <<chD>>

\* the user or a script of the page gives a text input a new value; setting
\* the value property queues no mutation record
FieldValuePut ==
    /\ wPhase \in {"loading", "running"}
    /\ \E f \in DOMAIN wFields :
          /\ wFields[f].value # PutValue
          /\ wFields' = [wFields EXCEPT ![f].value = PutValue]
    /\ UNCHANGED <<wTexts, wActive, wFaulty, wPhase, wObserver, wTimers,
                   wMoves, wPasses>>

-----------------------------------------------------------------------------
(* The banner of startIfNeeded.  What the call got for GET_MAPPING and how  *)
(* many units its initial pass changed decide the calls it makes of         *)
(* showMappingErrorBanner.  document.body exists when startIfNeeded is      *)
(* defined (513-521), so document.documentElement does too (397).  No code  *)
(* removes the banner element.                                              *)

MaxBannerStarts == 2
MaxChanged == 11

\* totalReplacements < 10 (630)
TooFew == 10

\* getMappingFromBackground gave null (556); a record with ok false (562); a
\* record without mapping (568); a mapping for which buildReplacer returns
\* null (579); a mapping that has a replacer
GotResults == {"noAnswer", "notOk", "noMapping", "emptyMapping", "usable"}

Failures == GotResults \ {"usable"}

\* the argument of showMappingErrorBanner, as far as the function reads it
\* for showing or not: a failure record (557, 563, 570, 581) or a warning
\* (625, 632)
FailureInfo == [warning |-> FALSE]
WarningInfo == [warning |-> TRUE]

\* showMappingErrorBanner (394-448): whether the banner element is in the
\* page afterwards, given whether it was there before
ShowMappingErrorBanner(info, present) ==
    IF info.warning THEN present
    ELSE IF present THEN present
    ELSE TRUE

BannerIdle ==
    /\ gotResult = "none"
    /\ changedTextNodes = 0
    /\ changedFields = 0
    /\ banner = FALSE
    /\ bannerStarts = 0

BannerInit == BannerIdle

\* startIfNeeded returns at one of 559, 565, 572, 583
StartFails ==
    /\ bannerStarts < MaxBannerStarts
    /\ bannerStarts' = bannerStarts + 1
    /\ gotResult' \in Failures
    /\ banner' = ShowMappingErrorBanner(FailureInfo, banner)
    /\ changedTextNodes' = 0
    /\ changedFields' = 0

\* startIfNeeded builds the replacer and makes its initial pass (577-635)
StartTranslates ==
    /\ bannerStarts < MaxBannerStarts
    /\ bannerStarts' = bannerStarts + 1
    /\ gotResult' = "usable"
    /\ changedTextNodes' \in 0..MaxChanged
    /\ changedFields' \in 0..MaxChanged
    /\ LET totalReplacements == changedTextNodes' + changedFields'
       IN  banner' =
               IF totalReplacements = 0
               THEN ShowMappingErrorBanner(WarningInfo, banner)
               ELSE IF totalReplacements < TooFew
               THEN ShowMappingErrorBanner(WarningInfo, banner)
               ELSE banner

-----------------------------------------------------------------------------
(* Specifications                                                          *)

InitReplacer ==
    /\ ReplInit
    /\ BuildIdle
    /\ RefreshIdle
    /\ DomIdle
    /\ CacheIdle
    /\ LifeIdle
    /\ CsvIdle
    /\ WalkIdle
    /\ BannerIdle

NextReplacer ==
    ApplyReplacer /\ UNCHANGED <<buildVars, refreshVars, domVars, cacheVars, lifeVars, csvVars, walkVars, bannerVars>>

SpecReplacer == InitReplacer /\ [][NextReplacer]_vars

InitBuilder ==
    /\ BuildInit
    /\ ReplIdle
    /\ RefreshIdle
    /\ DomIdle
    /\ CacheIdle
    /\ LifeIdle
    /\ CsvIdle
    /\ WalkIdle
    /\ BannerIdle

NextBuilder ==
    BuildMapping /\ UNCHANGED <<replVars, refreshVars, domVars, cacheVars, lifeVars, csvVars, walkVars, bannerVars>>

SpecBuilder == InitBuilder /\ [][NextBuilder]_vars

InitRefresh ==
    /\ RefreshInit
    /\ ReplIdle
    /\ BuildIdle
    /\ DomIdle
    /\ CacheIdle
    /\ LifeIdle
    /\ CsvIdle
    /\ WalkIdle
    /\ BannerIdle

refreshRest ==
    <<replVars, buildVars, domVars, cacheVars, lifeVars, csvVars, walkVars, bannerVars>>

NextRefresh ==
    \/ RefreshCall /\ UNCHANGED refreshRest
    \/ FetchSettles /\ UNCHANGED refreshRest
    \/ OverrideLoaded /\ UNCHANGED refreshRest
    \/ StorageSet /\ UNCHANGED refreshRest

SpecRefresh == InitRefresh /\ [][NextRefresh]_vars

InitCache ==
    /\ CacheInit
    /\ ReplIdle
    /\ BuildIdle
    /\ RefreshIdle
    /\ DomIdle
    /\ LifeIdle
    /\ CsvIdle
    /\ WalkIdle
    /\ BannerIdle

cacheRest ==
    <<replVars, buildVars, refreshVars, domVars, lifeVars, csvVars, walkVars, bannerVars>>

NextCache ==
    \/ RefreshMappingCalled /\ UNCHANGED cacheRest
    \/ CsvFetchSettles /\ UNCHANGED cacheRest
    \/ OverridesRead /\ UNCHANGED cacheRest
    \/ CacheWriteResolves /\ UNCHANGED cacheRest
    \/ CacheWriteRejects /\ UNCHANGED cacheRest
    \/ GetMappingRequested /\ UNCHANGED cacheRest
    \/ GetMappingRead /\ UNCHANGED cacheRest

SpecCache == InitCache /\ [][NextCache]_vars

restVars ==
    <<replVars, buildVars, refreshVars, cacheVars, lifeVars, csvVars, walkVars, bannerVars>>

InitEngine ==
    /\ DomInit
    /\ ReplIdle
    /\ BuildIdle
    /\ RefreshIdle
    /\ CacheIdle
    /\ LifeIdle
    /\ CsvIdle
    /\ WalkIdle
    /\ BannerIdle

NextEngine ==
    \/ StartIfNeeded /\ UNCHANGED restVars
    \/ RetryPass /\ UNCHANGED restVars
    \/ PageSetText /\ UNCHANGED restVars
    \/ PageMove /\ UNCHANGED restVars
    \/ ObserverCallback /\ UNCHANGED restVars
    \/ ScheduledPass /\ UNCHANGED restVars
    \/ ToggleRubySwap /\ UNCHANGED restVars
    \/ StopAndRestore /\ UNCHANGED restVars

SpecEngine == InitEngine /\ [][NextEngine]_vars

lifeRest == <<replVars, buildVars, refreshVars, cacheVars, csvVars, walkVars, bannerVars>>

InitLife ==
    /\ LifeInit
    /\ ReplIdle
    /\ BuildIdle
    /\ RefreshIdle
    /\ CacheIdle
    /\ CsvIdle
    /\ WalkIdle
    /\ BannerIdle

NextLife ==
    \/ FirstStart /\ UNCHANGED lifeRest
    \/ StartResumes /\ UNCHANGED lifeRest
    \/ EnabledChanged /\ UNCHANGED lifeRest
    \/ RubySwapChanged /\ UNCHANGED lifeRest
    \/ DomainOnlyChanged /\ UNCHANGED lifeRest
    \/ RetryPass /\ UNCHANGED <<lifeRest, lifeVars>>
    \/ PageSetText /\ UNCHANGED <<lifeRest, lifeVars>>
    \/ ObserverCallback /\ UNCHANGED <<lifeRest, lifeVars>>
    \/ ScheduledPass /\ UNCHANGED <<lifeRest, lifeVars>>

SpecLife == InitLife /\ [][NextLife]_vars

csvRest ==
    <<replVars, buildVars, refreshVars, domVars, cacheVars, lifeVars, walkVars, bannerVars>>

InitCsv ==
    /\ CsvInit
    /\ ReplIdle
    /\ BuildIdle
    /\ RefreshIdle
    /\ DomIdle
    /\ CacheIdle
    /\ LifeIdle
    /\ WalkIdle
    /\ BannerIdle

NextCsv == ParseCsvCalled /\ UNCHANGED csvRest

SpecCsv == InitCsv /\ [][NextCsv]_vars

walkRest ==
    <<replVars, buildVars, refreshVars, domVars, cacheVars, lifeVars, csvVars, bannerVars>>

InitWalk ==
    /\ WalkInit
    /\ ReplIdle
    /\ BuildIdle
    /\ RefreshIdle
    /\ DomIdle
    /\ CacheIdle
    /\ LifeIdle
    /\ CsvIdle
    /\ BannerIdle

NextWalk ==
    \/ WalkInitial /\ UNCHANGED walkRest
    \/ WalkRetry /\ UNCHANGED walkRest
    \/ WalkScheduled /\ UNCHANGED walkRest
    \/ FocusMoves /\ UNCHANGED walkRest
    \/ FieldValuePut /\ UNCHANGED walkRest

SpecWalk == InitWalk /\ [][NextWalk]_vars

bannerRest ==
    <<replVars, buildVars, refreshVars, domVars, cacheVars, lifeVars, csvVars,
      walkVars>>

InitBanner ==
    /\ BannerInit
    /\ ReplIdle
    /\ BuildIdle
    /\ RefreshIdle
    /\ DomIdle
    /\ CacheIdle
    /\ LifeIdle
    /\ CsvIdle
    /\ WalkIdle

NextBanner ==
    \/ StartFails /\ UNCHANGED bannerRest
    \/ StartTranslates /\ UNCHANGED bannerRest

SpecBanner == InitBanner /\ [][NextBanner]_vars

\* The observer callback and the pass are microtasks: once queued they run.
\* Only ScheduledPass takes scheduled from TRUE to FALSE, so PassRuns is the
\* step of ScheduledPass and is enabled exactly when the microtask is queued.
PassRuns == scheduled /\ scheduled' = FALSE

SpecEngineLive ==
    /\ SpecEngine
    /\ WF_vars(ObserverCallback /\ UNCHANGED restVars)
    /\ WF_scheduled(PassRuns)

-----------------------------------------------------------------------------
(* Claims                                                                  *)

\* the longest key of the mapping that occurs in text at position i
LongestKeyAt(mapping, text, i) ==
    LET M == {k \in DOMAIN mapping : MatchesAt(k, text, i)} IN
    IF M = {} THEN Null
    ELSE CHOOSE k \in M : \A k2 \in M : Len(k2) <= Len(k)

\* left-to-right scan that replaces the longest key at each match position
RECURSIVE LeftmostLongest(_, _, _)
LeftmostLongest(mapping, text, i) ==
    IF i > Len(text) THEN <<>>
    ELSE LET k == LongestKeyAt(mapping, text, i) IN
         IF k = Null THEN <<text[i]>> \o LeftmostLongest(mapping, text, i + 1)
         ELSE mapping[k] \o LeftmostLongest(mapping, text, i + Len(k))

\* C3: the function returned by buildReplacer scans left to right and at each
\* match position replaces the longest key that matches there; with keys "ab"
\* and "a" the input "ab" yields the value of "ab"; unmatched text is copied.
C3_LongestMatch ==
    rDone =>
        /\ rOut = LeftmostLongest(rMapping, rText, 1)
        /\ ({<<chA, chB>>, <<chA>>} \subseteq DOMAIN rMapping /\ rText = <<chA, chB>>)
               => rOut = rMapping[<<chA, chB>>]

C3_Witness ==
    /\ rDone
    /\ {<<chA, chB>>, <<chA>>} \subseteq DOMAIN rMapping
    /\ rText = <<chC, chA, chB>>
    /\ rOut = <<chC>> \o rMapping[<<chA, chB>>]


\* vocabulary of the claims about mappingFromRows
RowCell0(i) == IF Len(bRows[i]) >= 1 THEN bRows[i][1] ELSE <<>>
RowCell1(i) == IF Len(bRows[i]) >= 2 THEN bRows[i][2] ELSE <<>>
Row0Tokens0 == Tokens(RowCell0(1))
Row0Tokens1 == Tokens(RowCell1(1))
Row0IsPacked == Len(Row0Tokens0) >= PackedMin
PairwiseDistinct(seq) ==
    \A i, j \in 1..Len(seq) : i # j => seq[i] # seq[j]
\* row i takes part in the direct substitution
SubstitutionRow(i) ==
    /\ Trim(RowCell0(i)) # <<>>
    /\ Trim(RowCell1(i)) # <<>>
    /\ ~(i = 1 /\ Row0IsPacked)
\* some direct substitution row has the key k
SubstitutionKey(k) ==
    \E i \in 1..Len(bRows) : SubstitutionRow(i) /\ Trim(RowCell0(i)) = k
MapsTo(k, v) == k \in DOMAIN bMapping /\ bMapping[k] = v

\* C4 as stated: every row whose cell 0 and cell 1 are non-empty has its cell 0
\* mapped to its cell 1 in the final mapping.
C4_Original ==
    bDone =>
        \A i \in 1..Len(bRows) :
            (RowCell0(i) # <<>> /\ RowCell1(i) # <<>>)
                => MapsTo(RowCell0(i), RowCell1(i))

\* C4 amended: every row other than a packed row 0 whose cell 0 and cell 1 are
\* non-empty after trimming, and which is the last such row with that trimmed
\* cell 0, has its trimmed cell 0 mapped to its trimmed cell 1, whatever the
\* packed-row and modulo strategies wrote for that key.
C4_DirectRowWins ==
    bDone =>
        \A i \in 1..Len(bRows) :
            ( /\ SubstitutionRow(i)
              /\ \A j \in (i + 1)..Len(bRows) :
                    ~(SubstitutionRow(j) /\ Trim(RowCell0(j)) = Trim(RowCell0(i))) )
                => MapsTo(Trim(RowCell0(i)), Trim(RowCell1(i)))

\* a direct row overwrote what the packed row or the fallback wrote for token 3
C4_Witness ==
    /\ bDone
    /\ Row0IsPacked
    /\ Len(PackedWrites(bRows)) + Len(FallbackWrites(bRows)) > 0
    /\ \E i \in 2..Len(bRows) :
          /\ RowCell0(i) = <<CipherTok(3)>>
          /\ bMapping[<<CipherTok(3)>>] = RowCell1(i)
          /\ RowCell1(i) = <<chX>>

\* C5 as stated: with at least 100 distinct tokens in row 0 cell 0 and at least
\* 100 tokens in row 0 cell 1, token i of cell 0 maps to token i of cell 1 for
\* every i below the shorter count, and no entry comes from the modulo fallback.
C5_Original ==
    (bDone /\ Row0IsPacked /\ PairwiseDistinct(Row0Tokens0)
        /\ Len(Row0Tokens1) >= PackedMin)
    => /\ \A i \in 1..SeqMin(Len(Row0Tokens0), Len(Row0Tokens1)) :
             MapsTo(Row0Tokens0[i], Row0Tokens1[i])
       /\ bFallback = {}

\* C5 amended: the same, except for a token that is also the trimmed cell 0 of a
\* later direct-substitution row, which holds that row's value instead.
C5_PackedPairs ==
    (bDone /\ Row0IsPacked /\ PairwiseDistinct(Row0Tokens0)
        /\ Len(Row0Tokens1) >= PackedMin)
    => /\ \A i \in 1..SeqMin(Len(Row0Tokens0), Len(Row0Tokens1)) :
             ~SubstitutionKey(Row0Tokens0[i])
                => MapsTo(Row0Tokens0[i], Row0Tokens1[i])
       /\ bFallback = {}

\* both cells packed with different token counts, ten indexed rows present
C5_Witness ==
    /\ bDone /\ Row0IsPacked /\ PairwiseDistinct(Row0Tokens0)
    /\ Len(Row0Tokens1) >= PackedMin
    /\ Len(Row0Tokens1) # Len(Row0Tokens0)
    /\ Cardinality(DOMAIN PlainByIndex(bRows)) >= IndexedMin
    /\ MapsTo(<<CipherTok(PackedMin)>>, <<PlainTok(PackedMin)>>)
    /\ bFallback = {}

\* the index table of strategy 1 holds exactly the indices 0..9
TenIndexedRows == DOMAIN PlainByIndex(bRows) = 0..(IndexedMin - 1)

\* C6 as stated: with 25 tokens in row 0 cell 0, row 0 cell 1 not packed and ten
\* indexed rows 0..9, token i maps to the indexed-plaintext entry at i mod 10.
C6_Original ==
    (bDone /\ Len(Row0Tokens0) = 25 /\ Len(Row0Tokens1) < PackedMin
        /\ TenIndexedRows)
    => \A i \in 1..Len(Row0Tokens0) :
          MapsTo(Row0Tokens0[i], PlainByIndex(bRows)[(i - 1) % IndexedMin])

\* C6 amended: with at least 100 distinct tokens in row 0 cell 0, row 0 cell 1
\* not packed and the index table holding exactly 0..9, every token that is not
\* the trimmed cell 0 of a direct-substitution row maps to the indexed-plaintext
\* entry at i mod 10.
C6_ModuloFallback ==
    (bDone /\ Row0IsPacked /\ PairwiseDistinct(Row0Tokens0)
        /\ Len(Row0Tokens1) < PackedMin /\ TenIndexedRows)
    => \A i \in 1..Len(Row0Tokens0) :
          ~SubstitutionKey(Row0Tokens0[i])
             => MapsTo(Row0Tokens0[i], PlainByIndex(bRows)[(i - 1) % IndexedMin])

C6_Witness ==
    /\ bDone /\ Row0IsPacked /\ PairwiseDistinct(Row0Tokens0)
    /\ Len(Row0Tokens1) < PackedMin /\ TenIndexedRows
    /\ MapsTo(<<CipherTok(12)>>, <<PlainTok(2)>>)
    /\ MapsTo(<<CipherTok(PackedMin)>>, <<PlainTok(IndexedMin)>>)
    /\ <<CipherTok(12)>> \in bFallback

\* row i has fewer than two cells
ShortRow(i) == Len(bRows[i]) < 2

\* the keys a strategy may take from row i: its trimmed cell 0 and, for row 0,
\* the tokens of its cell 0
KeysFrom(i) ==
    (IF Trim(RowCell0(i)) # <<>> THEN {Trim(RowCell0(i))} ELSE {})
    \cup (IF i = 1 THEN {Row0Tokens0[j] : j \in 1..Len(Row0Tokens0)} ELSE {})

\* C28: a key that only rows with fewer than two cells could have supplied is
\* not in the mapping mappingFromRows returns, also when such a row is row 0
\* and its one cell holds 100 or more tokens.
C28_ShortRowsSkipped ==
    bDone =>
        \A i \in 1..Len(bRows) :
            ShortRow(i) =>
                \A k \in KeysFrom(i) :
                    k \in DOMAIN bMapping =>
                        \E j \in 1..Len(bRows) : ~ShortRow(j) /\ k \in KeysFrom(j)

\* the branch of the modulo fallback is taken (196)
FallbackUsed ==
    /\ Row0IsPacked
    /\ Len(Row0Tokens1) < PackedMin
    /\ Cardinality(DOMAIN PlainByIndex(bRows)) >= IndexedMin

\* C29: the modulo fallback writes keys exactly when row 0 cell 0 is packed,
\* row 0 cell 1 is not and the index table has at least 10 entries; token i of
\* row 0 cell 0 then holds the entry of the index table at i mod N, N being
\* the number of entries of the table, whether the indices are consecutive,
\* sparse or repeated (a token that is the key of a direct-substitution row
\* holds that row's value).
C29_ModuloByTableSize ==
    bDone =>
        /\ bFallback # {} <=> FallbackUsed
        /\ (FallbackUsed /\ PairwiseDistinct(Row0Tokens0)) =>
              LET P == PlainByIndex(bRows)
                  N == Cardinality(DOMAIN P)
              IN \A i \in 1..Len(Row0Tokens0) :
                    ((i - 1) % N \in DOMAIN P /\ ~SubstitutionKey(Row0Tokens0[i]))
                        => MapsTo(Row0Tokens0[i], P[(i - 1) % N])

-----------------------------------------------------------------------------
(* Claims about parseCsv *)

\* the table before the trailing rows are removed
RawRows == ParseFrom(cText, 1, <<>>, <<>>, <<>>, FALSE)

\* the pieces of s between the occurrences of c
RECURSIVE SplitAt(_, _)
SplitAt(s, c) ==
    LET hits == {i \in 1..Len(s) : s[i] = c} IN
    IF hits = {} THEN <<s>>
    ELSE <<SubSeq(s, 1, SetMin(hits) - 1)>>
            \o SplitAt(SubSeq(s, SetMin(hits) + 1, Len(s)), c)

Without(s, c) == SelectSeq(s, LAMBDA x : x # c)

\* text without quotes read line by line and cell by cell
PlainTable(text) ==
    LET lines == SplitAt(Without(text, CR), LF) IN
    [k \in 1..Len(lines) |-> SplitAt(lines[k], COMMA)]

\* a table written with every cell in quotes and every quote doubled
QuotedCell(cell) ==
    <<QUOTE>>
    \o Concat([i \in 1..Len(cell) |->
                  IF cell[i] = QUOTE THEN <<QUOTE, QUOTE>> ELSE <<cell[i]>>])
    \o <<QUOTE>>
QuotedRow(row) ==
    Concat([j \in 1..Len(row) |->
               (IF j > 1 THEN <<COMMA>> ELSE <<>>) \o QuotedCell(row[j])])
QuotedTable(rows) ==
    Concat([k \in 1..Len(rows) |->
               (IF k > 1 THEN <<LF>> ELSE <<>>) \o QuotedRow(rows[k])])

\* every cell of the row is empty or white space
BlankRow(row) ==
    \A j \in 1..Len(row) : \A i \in 1..Len(row[j]) : IsSpace(row[j][i])

\* the text has one quote, which nothing closes
OpenQuoteAt(q) ==
    /\ cText[q] = QUOTE
    /\ \A i \in 1..Len(cText) : cText[i] = QUOTE => i = q

\* rows with the given text appended to the last cell of the last row
AbsorbedInto(rows, rest) ==
    LET last == rows[Len(rows)] IN
    [rows EXCEPT ![Len(rows)] =
        [last EXCEPT ![Len(last)] = last[Len(last)] \o rest]]

\* C25: parseCsv returns a table for every text.  Without quotes the rows
\* are the lines and the cells the pieces between commas, the text after the
\* last newline being the last row; a table written with every cell quoted
\* and every quote doubled is read back cell for cell, commas, newlines and
\* quotes included; an unclosed quote takes the rest of the text into the
\* current cell; the rows removed at the end are exactly the trailing rows
\* whose cells are all empty or white space.
C25_ParseCsv ==
    cDone =>
        /\ (\A i \in 1..Len(cText) : cText[i] # QUOTE)
              => RawRows = PlainTable(cText)
        /\ ParseFrom(QuotedTable(RawRows), 1, <<>>, <<>>, <<>>, FALSE) = RawRows
        /\ \A q \in 1..Len(cText) :
              OpenQuoteAt(q) =>
                 RawRows = AbsorbedInto(PlainTable(SubSeq(cText, 1, q - 1)),
                                        SubSeq(cText, q + 1, Len(cText)))
        /\ Len(cRows) <= Len(RawRows)
        /\ cRows = SubSeq(RawRows, 1, Len(cRows))
        /\ \A k \in (Len(cRows) + 1)..Len(RawRows) : BlankRow(RawRows[k])
        /\ cRows # <<>> => ~BlankRow(cRows[Len(cRows)])

\* a quoted cell holding a comma, and an empty last row dropped
C25_Witness ==
    /\ cDone
    /\ cText = <<QUOTE, COMMA, QUOTE, LF>>
    /\ cRows = << << <<COMMA>> >> >>

\* C26: no cell of the table parseCsv returns holds a carriage return.
C26_NoCarriageReturn ==
    cDone =>
        \A k \in 1..Len(cRows) : \A j \in 1..Len(cRows[k]) :
            \A i \in 1..Len(cRows[k][j]) : cRows[k][j][i] # CR

-----------------------------------------------------------------------------
(* Claims about fetchFirstWorkingCsv and refreshMapping *)

FetchSettled == fPc \in {"override", "store", "done"}
RefreshReturned == fPc = "done"

SuccessStatus == ~fResp.rejected /\ fResp.status \in 200..299

BodyIsBlank == \A i \in 1..Len(fResp.body) : fResp.body[i] \in WhiteSpace

SameLetter(ch, lower) == ch = lower \/ (ch \in 65..90 /\ ch + 32 = lower)

\* "<html", in either case, lies wholly within the first 2000 characters
HtmlTagInHead ==
    \E i \in 1..Len(fResp.body) :
        /\ i + 4 <= 2000
        /\ i + 4 <= Len(fResp.body)
        /\ \A j \in 1..5 : SameLetter(fResp.body[i + j - 1], HtmlTag[j])

FetchFailedWithAuthStatus ==
    /\ fFetched.thrown
    /\ ~fResp.rejected
    /\ fResp.status \in {401, 403}

\* C10: when the fetch fails with HTTP status 401 or 403 the stored failure
\* record carries that status and has privateOrAuthRequired set; for any
\* other failure the flag is false.
C10_AuthFlag ==
    (RefreshReturned /\ ~stored.ok) =>
        IF FetchFailedWithAuthStatus
        THEN stored.status = fResp.status /\ stored.privateOrAuthRequired
        ELSE ~stored.privateOrAuthRequired

\* every key and every value of the mapping is non-empty after trimming
NonEmptyEntries(mapping) ==
    \A k \in DOMAIN mapping : Trim(k) # <<>> /\ Trim(mapping[k]) # <<>>

\* C19: whatever the sheet and whatever the stored override object, the
\* mapping of a success record, the one handed to storage.local.set and the
\* one stored, has only keys and only values that are non-empty after
\* trimming.
C19_NonEmptyEntries ==
    /\ fPending.ok => NonEmptyEntries(fPending.mapping)
    /\ stored.ok => NonEmptyEntries(stored.mapping)

C19_Witness ==
    /\ RefreshReturned
    /\ stored.ok
    /\ fResp.body = SpacedSheet
    /\ fOverride = SpacedOverrides
    /\ DOMAIN stored.mapping = { <<chA>>, <<chB>> }
    /\ stored.mapping[<<chB>>] = <<SP, chY, SP>>

\* loadLocalOverrideMapping has resolved and the success record is built
OverridesSanitized == fPc \in {"store", "done"} /\ fPending.ok

\* the entries of the stored object whose key and value are non-empty after
\* trimming
Surviving(obj) ==
    {i \in 1..Len(obj.entries) :
        Trim(obj.entries[i][1]) # <<>> /\ Trim(obj.entries[i][2]) # <<>>}

\* the last surviving entry whose trimmed key is k
LastWith(obj, k) ==
    SetMax({i \in Surviving(obj) : Trim(obj.entries[i][1]) = k})

\* C27: the mapping sanitizeMappingObject returns for the stored override
\* value, which refreshMapping merges over the sheet mapping, has as keys the
\* trimmed keys of the entries that are non-empty after trimming and as
\* values their trimmed values; for a value that is no object it is empty.
C27_TrimmedEntries ==
    OverridesSanitized =>
        LET out == SanitizeMappingObject(fOverride) IN
        /\ fPending.mapping = Merge(fMapping, out)
        /\ ~fOverride.isObject => out = EmptyMapping
        /\ fOverride.isObject =>
              /\ DOMAIN out =
                    {Trim(fOverride.entries[i][1]) : i \in Surviving(fOverride)}
              /\ \A k \in DOMAIN out :
                    out[k] = Trim(fOverride.entries[LastWith(fOverride, k)][2])

-----------------------------------------------------------------------------
(* Claims about the cache record: refreshMapping calls and GET_MAPPING     *)
(* requests sharing the storage area                                       *)

\* the override object under LOCAL_OVERRIDE_KEY, sanitized
SanitizedOverrides == SanitizeMappingObject(area.localOverrideMapping)

\* call c has returned ok:true, so its success record was stored
RefreshSucceeded(c) == calls[c].pc = "done" /\ calls[c].result.ok

\* C11: refreshMapping never rejects to its caller, whatever the fetch, the
\* parse, the build and the storage reads and writes do, so that the sender
\* of REFRESH_MAPPING always gets a response.
C11_NeverRejects == \A c \in 1..MaxCalls : calls[c].pc # "rejected"

\* C12: the mapping of the success record of a successful refresh holds, for
\* every key of the sanitized override mapping, the override's value, and for
\* every other key of the mapping derived from the sheet, the sheet's value.
C12_OverrideWins ==
    \A c \in 1..MaxCalls :
        RefreshSucceeded(c) =>
            /\ DOMAIN calls[c].pending.mapping =
                   (DOMAIN calls[c].mapping) \cup (DOMAIN SanitizedOverrides)
            /\ \A k \in DOMAIN calls[c].pending.mapping :
                   calls[c].pending.mapping[k] =
                       IF k \in DOMAIN SanitizedOverrides
                       THEN SanitizedOverrides[k]
                       ELSE calls[c].mapping[k]

\* the mapping derived from the response of call c, merged with the overrides
MergedOf(c) ==
    Merge(ChosenMapping(FetchFirstWorkingCsv(calls[c].resp)), SanitizedOverrides)

\* C13: a refresh that has returned reports ok:true, with a success record,
\* exactly when the merge of the overrides into the mapping derived from the
\* sheet is non-empty; otherwise its failure record says the mapping is empty.
C13_SuccessIffMergedNonEmpty ==
    \A c \in 1..MaxCalls :
        calls[c].pc = "done" =>
            /\ calls[c].result.ok <=> (DOMAIN MergedOf(c) # {})
            /\ calls[c].pending.ok = calls[c].result.ok
            /\ ~calls[c].result.ok => calls[c].pending.error = "Mapping is empty"

\* the step in which a GET_MAPPING request is answered
GetMappingAnswered == getMapping.pc = "reading" /\ getMapping'.pc = "answered"

\* C14: the response to GET_MAPPING is the record stored under the cache key
\* at the time of the read; it is the default record "No mapping yet" exactly
\* when no write of a refresh has resolved so far; handling the request
\* leaves the storage area as it was.
C14_GetMapping ==
    [][/\ GetMappingAnswered =>
             /\ getMapping'.response =
                    IF written THEN area.cipherMapping ELSE NoMappingYet
             /\ (getMapping'.response = NoMappingYet) <=> ~written
       /\ getMapping' # getMapping => area' = area]_vars

C14_Witness ==
    /\ getMapping.pc = "answered"
    /\ getMapping.response = NoMappingYet
    /\ ~written
    /\ \E c \in 1..MaxCalls : calls[c].pc \in {"store", "storeFailure"}

\* a success record with all its fields, or a failure record with all its
\* fields and nothing of a success record
CompleteSuccess(r) ==
    /\ r.ok
    /\ r.count = Cardinality(DOMAIN r.mapping)
    /\ r.count >= 1
    /\ r.fetchedAt # Absent /\ r.sourceUrl # Absent /\ r.durationMs # Absent
    /\ r.error = ""

CompleteFailure(r) ==
    /\ ~r.ok
    /\ r.error \notin {"", "(none)", "No mapping yet"}
    /\ r.fetchedAt # Absent
    /\ r.mapping = EmptyMapping /\ r.count = 0
    /\ r.sourceUrl = Absent /\ r.durationMs = Absent

Complete(r) == CompleteSuccess(r) \/ CompleteFailure(r)

\* a write under the cache key replaces the value by the whole record of one
\* refreshMapping call
WriteIsWhole ==
    area' # area =>
        /\ area'.localOverrideMapping = area.localOverrideMapping
        /\ \E c \in 1..MaxCalls :
              /\ calls[c].pc \in {"store", "storeFailure"}
              /\ area'.cipherMapping = calls[c].pending

\* C15: the cache key holds nothing or one complete record, a success record
\* whose count is the number of keys of its mapping and at least 1, or a
\* failure record; every write replaces the value by the record of one call,
\* and every response to GET_MAPPING is the default record or the complete
\* record stored at the time of the read, under every interleaving of
\* concurrent refreshMapping calls and reads.
C15_OneWholeRecord ==
    /\ [](/\ area.cipherMapping = Unset \/ Complete(area.cipherMapping)
          /\ getMapping.pc = "answered" =>
                (getMapping.response = NoMappingYet \/ Complete(getMapping.response)))
    /\ [][/\ WriteIsWhole
          /\ GetMappingAnswered =>
                getMapping'.response \in {NoMappingYet, area.cipherMapping}]_vars

\* two calls overlapped: one has stored its success record while the other,
\* with a failure record, still awaits its write; a reader got the record
C15_Witness ==
    /\ \E c, d \in 1..MaxCalls :
          /\ calls[c].pc = "done" /\ calls[c].pending.ok
          /\ calls[d].pc = "storeFailure"
          /\ c > d
    /\ getMapping.pc = "answered"
    /\ getMapping.response = area.cipherMapping
    /\ area.cipherMapping.ok

\* C16: once a refresh has succeeded, every response to GET_MAPPING exposes
\* the mapping of the most recent successful refresh.
C16_LastSuccessExposed ==
    [][(GetMappingAnswered /\ lastOk.any) =>
           /\ getMapping'.response.ok
           /\ getMapping'.response.mapping = lastOk.mapping]_vars

-----------------------------------------------------------------------------
(* Claims about the toggles and the start of the engine *)

\* domain restriction is on and the page is not on the allow-list
Blocked == domainOnly /\ ~allowed

\* a step of the content script that rewrites the document: it changes the
\* document and is neither a mutation by the page nor the restore of a
\* handler that switches enabled or domainOnly
RewriteStep ==
    /\ dom' # dom
    /\ pageOps' = pageOps
    /\ enabled' = enabled
    /\ domainOnly' = domainOnly

\* C17: while domainOnly is true and isAllowedOkechikaSite() is false, no
\* rewrite pass (initial pass, timed retry, mutation-triggered pass, rubySwap
\* re-render) changes the document, also when domainOnly is switched on
\* while the engine runs or shortly after its start.
C17_NoPassWhenBlocked == [][~(Blocked /\ RewriteStep)]_vars

\* C18: while enabled is false (the handler of the change has run) no
\* observer is connected and no rewrite pass changes the document, whatever
\* startIfNeeded calls are still suspended at their awaits.
C18_OffMeansOff ==
    /\ [](~enabled => (~observer /\ leaked = 0))
    /\ [][~(~enabled /\ RewriteStep)]_vars

-----------------------------------------------------------------------------
(* Claims about passes over editable regions, form fields and throwing     *)
(* writes                                                                  *)

\* a step that runs translateRoot and translateFormFields on document.body:
\* the initial pass, a retry pass or a scheduled pass
InitialPassStep == wPhase = "loading" /\ wPhase' # "loading"
WalkPassStep ==
    \/ InitialPassStep
    \/ wTimers' < wTimers
    \/ wPasses' > wPasses

\* the contenteditable elements the text node lies in
RegionsAround(t) ==
    CASE WalkParent(t) = "I" -> {"I", "O"}
      [] WalkParent(t) = "O" -> {"O"}
      [] OTHER -> {}

\* the text node lies in a contenteditable region that contains the active
\* element
InFocusedRegion(t) == \E r \in RegionsAround(t) : RegionContains(r, wActive)

\* C24: a pass leaves the text input that is document.activeElement as it
\* is (value, data-okechika-original, style) and leaves every text node as it
\* is that lies in a contenteditable region containing the active element.
C24_FocusLeftAlone ==
    [][WalkPassStep =>
          /\ \A f \in DOMAIN wFields :
                wActive = f => wFields'[f] = wFields[f]
          /\ \A t \in DOMAIN wTexts :
                InFocusedRegion(t) => wTexts'[t] = wTexts[t]]_vars

\* translateRoot has nothing left to write for the text node
TextSettled(n, t) ==
    \/ ~NeedsWrite(n, t, wActive)
    \/ n.wrapped /\ n.value = ReplaceFn(WalkMapping, n.original)

\* translateFormFields has nothing left to write for the field
FieldSettled(el, f) ==
    \/ wActive = f
    \/ Trim(el.value) = <<>>
    \/ ReplaceFn(WalkMapping, IF el.marker # Null THEN el.marker ELSE el.value)
          = el.value

\* C30: a pass in which the write to one text node or one field throws still
\* rewrites every other eligible text node and field of document.body, and a
\* throw in the initial pass does not keep startIfNeeded from connecting the
\* observer.
C30_ThrowDoesNotAbort ==
    [][WalkPassStep =>
          /\ \A t \in DOMAIN wTexts :
                t \notin wFaulty => TextSettled(wTexts'[t], t)
          /\ \A f \in DOMAIN wFields :
                f \notin wFaulty => FieldSettled(wFields'[f], f)
          /\ InitialPassStep => wObserver']_vars

-----------------------------------------------------------------------------
(* Claims about the rewriting engine *)

ChainMapping == MapOf({ <<(<<chA>>), <<chB>>>>, <<(<<chB>>), <<chC>>>> })

\* the texts the page itself wrote into its nodes
PageAuthored == PageTexts \cup {<<chA, SP, chD>>}

\* every stored original (data-okechika-original, ORIGINAL_TEXT_BY_NODE) is a
\* text of the page, never a text the replacer produced
OriginalsArePageText ==
    \A u \in Units :
        /\ dom[u].storedOriginal # Null => dom[u].storedOriginal \in PageAuthored
        /\ dom[u].kind = "wrapper" => dom[u].okechikaOriginal \in PageAuthored

\* a step of the engine with the same replacer: a pass of any kind
PassStep == pageOps' = pageOps /\ enabled' = enabled /\ dom' # dom

\* a pass leaves a unit that shows the result of its first rewrite showing it
PassKeepsFirstRender ==
    \A u \in Units :
        (PassStep /\ firstRender[u] # Null /\ Render(dom[u]) = firstRender[u])
            => Render(dom'[u]) = firstRender[u]

\* C1: once translateRoot has rewritten a unit, every further pass with the
\* same replacer (initial run, retries, mutation-triggered passes, re-renders)
\* leaves the unit showing the result of its first rewrite, because the unit
\* is recomputed from its stored original, and a stored original is never
\* itself translated output.
C1_Idempotent == []OriginalsArePageText /\ [][PassKeepsFirstRender]_vars

C1_Witness ==
    /\ replaceFn = ChainMapping
    /\ phase = "running"
    /\ retryTimers = 0
    /\ pageOps > 0
    /\ dom["u1"].storedOriginal = <<chA>>
    /\ Render(dom["u1"]) = <<chB>>
    /\ firstRender["u1"] = <<chB>>
    /\ dom["u2"].kind = "wrapper"
    /\ Render(dom["u2"]) = firstRender["u2"]
    /\ Render(dom["u2"]) = <<chB, SP, chD>>

\* C2: restoreTranslatedInRoot puts in place of a container that
\* translateRoot made from a text node one text node holding exactly the text
\* that node held when it was wrapped, whatever passes and rubySwap changes
\* came in between.
C2_RestoreRoundTrip ==
    [][\A u \in Units :
          (dom[u].kind = "wrapper" /\ textAtWrap[u] # Null /\ dom'[u].kind = "text")
              => dom'[u].nodeValue = textAtWrap[u]]_vars

\* C8: the records of the engine's own container insertions and refreshes
\* put no root into pendingRoots.
C8_SelfSuppression == selfRoots = {}

\* the pass microtask runs
PassMicrotaskRuns == passQueue > 0 /\ passQueue' = passQueue - 1

\* C20: at most one pass microtask is queued at any time, and it is queued
\* exactly while the flag scheduled is set; callbacks that arrive while it is
\* queued queue no further one, regions are pending only while it is queued,
\* and when it runs it takes all of them: pendingRoots is empty afterwards
\* and no microtask is left.
C20_OneMicrotask ==
    /\ [](/\ passQueue <= 1
          /\ scheduled <=> passQueue = 1
          /\ pendingRoots # {} => passQueue = 1)
    /\ [][PassMicrotaskRuns => pendingRoots' = {} /\ passQueue' = 0]_vars

\* two callbacks went through scheduleTranslate while one microtask is
\* queued, and they left more than one region for it
C20_Witness ==
    /\ passQueue = 1
    /\ notified >= 2
    /\ Cardinality(pendingRoots) >= 2

\* the observer callback runs with the queued records
CallbackRuns == observer /\ records # {} /\ records' = {}

\* the queue holds nothing but the records of the writes of the last pass,
\* which was of the given kind
OwnRecordsOf(by) == lastPass.by = by /\ records = lastPass.recs

\* the callback returns at once (726)
Ignored ==
    /\ pendingRoots' = pendingRoots
    /\ scheduled' = scheduled
    /\ passQueue' = passQueue

\* C21: the observer callback ignores every notification that the writes of
\* a scheduled pass produced: it adds nothing to pendingRoots and schedules
\* no pass; isApplying is set while the pass walks its roots and is released
\* when the pass has ended.
C21_ScheduledPassIgnored ==
    /\ [](lastPass.by = "scheduled" => lastPass.guard /\ ~isApplying)
    /\ [][(CallbackRuns /\ OwnRecordsOf("scheduled")) => Ignored]_vars

\* C22: isApplying is set while a retry pass makes its changes, and the
\* observer callback ignores the notifications that these changes produced.
C22_RetryPassGuarded ==
    /\ [](lastPass.by = "retry" => lastPass.guard)
    /\ [][(CallbackRuns /\ OwnRecordsOf("retry")) => Ignored]_vars

\* translateRoot has nothing left to do for the text of a unit
Processed(unit) ==
    \/ unit.kind = "wrapper"
    \/ /\ unit.kind = "text"
       /\ \/ ShouldIgnoreTextNode(unit)
          \/ Trim(unit.nodeValue) = <<>>
          \/ ReplaceFn(replaceFn, OriginalOf(unit)) = unit.nodeValue

\* the pass microtask takes the whole set and walks every region of it that
\* is not inside a container
DrainsAll ==
    /\ ~isApplying
    /\ pendingRoots' = {}
    /\ \A r \in pendingRoots :
          ~IsInsideTranslated(r) =>
              \A u \in UnitsBelow(r, dom) : Processed(dom'[u])

\* C23: a region put into pendingRoots while the engine is enabled stays
\* there until the pass microtask runs, which it does; the microtask empties
\* the set in one step and hands every region that is not inside a container
\* to translateRoot: it never returns at the isApplying test with regions
\* taken from the set.
C23_PendingRootsProcessed ==
    /\ [](pendingRoots # {} => enabled /\ passQueue = 1 /\ ~isApplying)
    /\ [][pendingRoots \subseteq pendingRoots' \/ PassMicrotaskRuns]_vars
    /\ [][PassMicrotaskRuns => DrainsAll]_vars
    /\ (pendingRoots # {} ~> pendingRoots = {})

\* the pass microtask has just walked the pending regions: it overwrote one
\* text node in place and put a container in the place of another
C23_Witness ==
    /\ lastPass.by = "scheduled"
    /\ pendingRoots = {}
    /\ passQueue = 0
    /\ pageOps = MaxPageOps
    /\ \E u \in Units : CharacterDataRecord(PageTextNode(u)) \in lastPass.recs
    /\ \E u \in Units : ChildListRecord(WrapperNode(u)) \in lastPass.recs

Quiescent == ~scheduled /\ pendingRoots = {}

\* C9: with finitely many mutations by the page, the engine reaches and keeps
\* a state with no scheduled pass and an empty pendingRoots.
C9_Quiescence == <>[]Quiescent

C9_Witness ==
    /\ Quiescent
    /\ records = {}
    /\ phase = "running"
    /\ retryTimers = 0
    /\ pageOps > 0
    /\ toggles > 0
    /\ dom["u1"].storedOriginal # Null
    /\ \E u \in Units : dom[u].kind = "wrapper"

-----------------------------------------------------------------------------
(* The banner                                                               *)

StartCompleted == bannerStarts > 0

GenuineFailure == gotResult \in Failures

LowCount == gotResult = "usable" /\ changedTextNodes + changedFields < TooFew

\* C31: after startIfNeeded completes, the banner is in the page exactly when
\* the start hit a genuine failure (no answer, record not ok, mapping missing
\* or empty) or the mapping loaded and the initial pass made fewer than 10
\* replacements; a start with 10 or more replacements shows no banner.
C31_BannerShown ==
    StartCompleted => (banner <=> (GenuineFailure \/ LowCount))

-----------------------------------------------------------------------------
(* Restoration                                                              *)

\* the unit carries data-okechika-original
HasMarker(unit) == unit.kind \in {"wrapper", "legacy"}

\* the unit is a text node that translateRoot overwrote in place
OverwrittenInPlace(unit) == unit.kind = "text" /\ unit.storedOriginal # Null

\* C32: after stopAndRestore completes no element of the document carries the
\* data-okechika-original marker, and every unit the engine rewrote, a text
\* node overwritten in place included, shows its stored original text again.
C32_RestoredClean ==
    phase = "stopped" =>
        \A u \in Units :
            /\ ~HasMarker(dom[u])
            /\ OverwrittenInPlace(dom[u]) =>
                   dom[u].nodeValue = dom[u].storedOriginal

-----------------------------------------------------------------------------
(* The main text of a container                                             *)

\* the container was filled with rubySwap off: its main text is the base span
\* of each ruby pair and each plain text child
BuiltUnswapped(unit) == unit.kind = "wrapper" /\ ~unit.swapped

\* C33: for every container built with rubySwap off, its main-text children
\* concatenated in document order equal replaceFn applied to the container's
\* stored original, for any mapping, keys holding white space included.
C33_MainTextIsReplacement ==
    \A u \in Units :
        BuiltUnswapped(dom[u]) =>
            dom[u].translated = ReplaceFn(replaceFn, dom[u].okechikaOriginal)

-----------------------------------------------------------------------------
(* Values put into a unit after its first rewrite                           *)

\* the engine has rewritten the field, and the field now shows a value put
\* into it afterwards (data-okechika-original is set only by a rewrite, and
\* the replacer never yields PutValue)
ShowsNewValue(el) == el.marker # Null /\ el.value = PutValue

\* C34: a value that the user or the page puts into a form field after the
\* engine first rewrote it is never replaced by a later pass with the
\* translation of the older stored original: after any later pass the field
\* shows that new value or the translation of that new value.
C34_NewValueKept ==
    [][WalkPassStep =>
          \A f \in DOMAIN wFields :
              ShowsNewValue(wFields[f]) =>
                  wFields'[f].value
                      \in {PutValue, ReplaceFn(WalkMapping, PutValue)}]_vars

-----------------------------------------------------------------------------
(* The observers of the content script                                      *)

\* the MutationObservers created by startIfNeeded that are connected: the
\* one the variable observer refers to and those no variable refers to
ConnectedObservers == (IF observer THEN 1 ELSE 0) + leaked

\* a handler of storage.onChanged runs stopAndRestore
StopAndRestoreStep ==
    /\ events' > events
    /\ \/ enabled /\ ~enabled'
       \/ enabled /\ domainOnly' /\ ~domainOnly /\ ~allowed

\* C35: at most one MutationObserver created by startIfNeeded is connected at
\* any time, for every interleaving of toggle changes with startIfNeeded
\* calls in flight, so that stopAndRestore disconnects every observer that is
\* still connected.
C35_OneObserver ==
    /\ [](ConnectedObservers <= 1)
    /\ [][StopAndRestoreStep => ConnectedObservers' = 0]_vars

=============================================================================
